---- MODULE Spec2Model ----
(***************************************************************************)
(* A model of lambda-event-to-http: the translation of one API Gateway     *)
(* event into a request/response pair (LambdaIncomingMessage on an         *)
(* EventWrapperSocket, LambdaResponse on an EventResponseBodyWriter) and   *)
(* of the accumulated response back into an API Gateway result.            *)
(*                                                                         *)
(* JavaScript strings are sequences of one-character strings, buffers are  *)
(* sequences of byte values 0..255.  A property of an object is a tagged   *)
(* value: Absent (no such key), Null, or Str(s).                           *)
(***************************************************************************)
EXTENDS Integers, Sequences, FiniteSets, TLC

VARIABLES
    event,          \* the Lambda event handed to the library
    validated,      \* outcome of validateApiGatewayEvent(event), once called
    pair,           \* "none" | "created": createRequestResponsePair(event)
    reqUrl,         \* LambdaIncomingMessage._url
    ep,             \* the request's EventWrapperSocket: _readBody, _readOffset,
                    \* _writeBodyAccumulator, bytesWritten
    pushed,         \* what _read handed to push(), in order: data chunks
    eofCount,       \* how many times _read pushed null
    readCalls,      \* how many times _read was called
    epLog,          \* the chunks written to the endpoint, as given
    appified,       \* "idle" | "threw" | "ready": appify(event)
    listeners,      \* the listeners appify registered on the response
    promise,        \* "none" | "pending" | "resolved" | "rejected"
    result,         \* the value the result promise resolved to
    res,            \* the LambdaResponse (ServerResponse state)
    writer,         \* the response's EventResponseBodyWriter
    writerLog,      \* the chunks written to the writer, as given
    resLog,         \* the chunks the middleware wrote to the response
    ticks,          \* callbacks queued with process.nextTick, oldest first
    finishCount,    \* 'finish' events emitted by the response
    errorCount,     \* 'error' events emitted by the response
    guards,         \* what isAPIGatewayV1 and isAPIGatewayV2 gave for event
    appSubdomainLength, \* util.ts: the module's AppSubdomainLength
    subCall,        \* the last getSubdomains call: arguments and result
    timers,         \* every BasicTimeout the endpoint created, oldest first
    epTimeout,      \* EventWrapperSocket._timeout: 0 (undefined) or an index
    timerLog,       \* setTimeout calls and what the timers did, in order
    raised,         \* the last call that can throw, and what it threw
    destroyDepth,   \* frames of LambdaIncomingMessage.destroy on the stack
    destroyCalls,   \* calls the last destroy(error) made of the stream's destroy
    calls,          \* calls made on the endpoint that are counted
    resSocket,      \* the response's socket: "attached" (assignSocket in the
                    \* constructor), "detached" (detachSocket) or "destroyed"
    ipCall,         \* a getClientIP call: its event and what it returned
    pairs,          \* the request/response pairs made so far (p) and the
                    \* arrays their accumulators refer to (arrays)
    pairLog,        \* for each pair, the operations applied to it, in order
    options,        \* the options object handed to appify
    elapsed,        \* milliseconds passed since appify returned
    access,         \* the last property read from the request, the value
                    \* it gave, and the header object the caller holds
    transport       \* a ResponseTransport

evVars == <<event, validated, pair, reqUrl>>
epVars == <<ep, pushed, eofCount, readCalls, epLog>>
resVars == <<appified, listeners, promise, result, res, writer, writerLog,
             resLog, ticks, finishCount, errorCount>>
utilVars == <<guards, appSubdomainLength, subCall>>
tmVars == <<timers, epTimeout, timerLog>>
callVars == <<raised, destroyDepth, destroyCalls, calls, resSocket>>
extVars == <<ipCall, pairs, pairLog, options, elapsed, access, transport>>
auxVars == <<utilVars, tmVars, callVars, extVars>>
vars == <<evVars, epVars, resVars, auxVars>>

-----------------------------------------------------------------------------
(* JavaScript values *)

Absent == [t |-> "absent"]
Null == [t |-> "null"]
Str(s) == [t |-> "str", s |-> s]

\* 'key' in object
Has(v) == v.t # "absent"
\* !!value
Truthy(v) == v.t = "str" /\ v.s # <<>>

-----------------------------------------------------------------------------
(* Events *)

V10 == Str(<<"1", ".", "0">>)
V20 == Str(<<"2", ".", "0">>)
GET == Str(<<"G", "E", "T">>)
POST == Str(<<"P", "O", "S", "T">>)
PathX == Str(<<"/", "x">>)
PathY == Str(<<"/", "y">>)
RouteKeyY == Str(<<"G", "E", "T", " ", "/", "y">>)
Http11 == Str(<<"H", "T", "T", "P", "/", "1", ".", "1">>)
QueryC3 == Str(<<"c", "=", "3">>)

\* requestContext shapes: none, REST (protocol), HTTP API (http.method,
\* http.protocol), and one carrying both nestings.
NoHttp == [t |-> "absent"]
HttpGet == [t |-> "obj", method |-> GET, protocol |-> Http11]
RCAbsent == [t |-> "absent"]
RCv1 == [t |-> "obj", protocol |-> Http11, http |-> NoHttp]
RCv2 == [t |-> "obj", protocol |-> Absent, http |-> HttpGet]
RCboth == [t |-> "obj", protocol |-> Http11, http |-> HttpGet]
RequestContexts == {RCAbsent, RCv1, RCv2, RCboth}

\* queryStringParameters: an ordered map of key/value entries
QueryMap(entries) == [t |-> "map", m |-> entries]
QueryA1 == QueryMap(<<[k |-> <<"a">>, v |-> Str(<<"1">>)]>>)
QueryA1B2 ==
    QueryMap(<<[k |-> <<"a">>, v |-> Str(<<"1">>)],
               [k |-> <<"b">>, v |-> Str(<<"2">>)]>>)
\* {a: null, "x y": "2 &", c: null}
QueryNulls ==
    QueryMap(<<[k |-> <<"a">>, v |-> Null],
               [k |-> <<"x", " ", "y">>, v |-> Str(<<"2", " ", "&">>)],
               [k |-> <<"c">>, v |-> Null]>>)
\* {a: null} and {}
QueryAllNull == QueryMap(<<[k |-> <<"a">>, v |-> Null]>>)
QueryEmpty == QueryMap(<<>>)
QueryValues ==
    {Absent, Null, QueryA1, QueryA1B2, QueryNulls, QueryAllNull, QueryEmpty}

ObjectEvents ==
    [kind : {"object"},
     version : {Absent, V10, V20},
     httpMethod : {Absent, Null, POST},
     path : {Absent, Null, PathX},
     routeKey : {Absent, RouteKeyY},
     rawPath : {Absent, PathY},
     requestContext : RequestContexts,
     queryStringParameters : QueryValues,
     rawQueryString : {Absent, QueryC3},
     body : {Null}]

\* What a caller can pass that is no object: null, undefined, a number, a string.
NonObjectKinds == {"null", "undefined", "number", "string"}
NonObjectEvents ==
    [kind : NonObjectKinds,
     version : {Absent}, httpMethod : {Absent}, path : {Absent},
     routeKey : {Absent}, rawPath : {Absent}, requestContext : {RCAbsent},
     queryStringParameters : {Absent}, rawQueryString : {Absent},
     body : {Absent}]

Events == ObjectEvents \cup NonObjectEvents

\* typeof event
TypeOf(e) == IF e.kind \in {"null", "object"} THEN "object" ELSE e.kind
\* !event
Falsy(e) == e.kind \in {"null", "undefined"}

-----------------------------------------------------------------------------
(* types.ts *)

\* Reading a property of null or undefined throws a TypeError.
detectApiGatewayVersion(e) ==
    IF e.kind \in {"null", "undefined"} THEN "throw"
    ELSE IF e.version = V20 THEN "v2"
    ELSE IF Truthy(e.httpMethod) THEN "v1"
    ELSE "v1"

validateApiGatewayEvent_noNullGuard(e) ==
    IF TypeOf(e) # "object" THEN "rejected"
    ELSE LET version == detectApiGatewayVersion(e) IN
         IF version = "throw" THEN "threw"
         ELSE IF version = "v1"
              THEN IF Truthy(e.httpMethod) /\ Truthy(e.path)
                   THEN "accepted" ELSE "rejected"
              ELSE IF Truthy(e.routeKey) /\ Truthy(e.rawPath)
                   THEN "accepted" ELSE "rejected"

validateApiGatewayEvent(e) ==
    IF Falsy(e) \/ TypeOf(e) # "object" THEN "rejected"
    ELSE LET version == detectApiGatewayVersion(e) IN
         IF version = "throw" THEN "threw"
         ELSE IF version = "v1"
              THEN IF Truthy(e.httpMethod) /\ Truthy(e.path)
                   THEN "accepted" ELSE "rejected"
              ELSE IF Truthy(e.routeKey) /\ Truthy(e.rawPath)
                   THEN "accepted" ELSE "rejected"

\* The `in` operator throws a TypeError on a number or a string.
isAPIGatewayV1(e) ==
    IF Falsy(e) THEN "false"
    ELSE IF e.kind # "object" THEN "throw"
    ELSE IF Has(e.httpMethod) THEN "true" ELSE "false"

isAPIGatewayV2_noNullGuard(e) ==
    IF e.kind # "object" THEN "throw"
    ELSE IF e.requestContext.t = "obj" /\ Has(e.requestContext.http)
         THEN "true" ELSE "false"

isAPIGatewayV2(e) ==
    IF Falsy(e) THEN "false"
    ELSE IF e.kind # "object" THEN "throw"
    ELSE IF e.requestContext.t = "obj" /\ Has(e.requestContext.http)
         THEN "true" ELSE "false"

-----------------------------------------------------------------------------
(* String helpers *)

RECURSIVE Flatten(_)
Flatten(seqs) ==
    IF seqs = <<>> THEN <<>> ELSE Head(seqs) \o Flatten(Tail(seqs))

StartsWith(s, pat) ==
    Len(s) >= Len(pat) /\ SubSeq(s, 1, Len(pat)) = pat

\* String.prototype.replace(pat, ''): the first occurrence of pat is removed.
RECURSIVE RemoveFirst(_, _)
RemoveFirst(s, pat) ==
    IF s = <<>> THEN <<>>
    ELSE IF StartsWith(s, pat) THEN SubSeq(s, Len(pat) + 1, Len(s))
    ELSE <<Head(s)>> \o RemoveFirst(Tail(s), pat)

\* `${value}`: null and undefined print as words.
ToStr(v) ==
    IF v.t = "str" THEN v.s
    ELSE IF v.t = "null" THEN <<"n", "u", "l", "l">>
    ELSE <<"u", "n", "d", "e", "f", "i", "n", "e", "d">>

\* URLSearchParams.toString(): application/x-www-form-urlencoded.
UrlUnreserved ==
    {"a", "b", "c", "x", "y", "1", "2", "3", "*", "-", ".", "_"}
UrlEncodeChar(c) ==
    IF c \in UrlUnreserved THEN <<c>>
    ELSE IF c = " " THEN <<"+">>
    ELSE IF c = "&" THEN <<"%", "2", "6">>
    ELSE IF c = "=" THEN <<"%", "3", "D">>
    ELSE IF c = "/" THEN <<"%", "2", "F">>
    ELSE IF c = "?" THEN <<"%", "3", "F">>
    ELSE <<"%", "3", "B">>
UrlEncode(s) == Flatten([i \in 1..Len(s) |-> UrlEncodeChar(s[i])])

RECURSIVE URLSearchParamsToString(_)
URLSearchParamsToString(entries) ==
    IF entries = <<>> THEN <<>>
    ELSE LET e == Head(entries)
             rest == URLSearchParamsToString(Tail(entries))
             pair1 == UrlEncode(e.k) \o <<"=">> \o UrlEncode(e.v.s)
         IN IF e.v.t # "str" THEN rest
            ELSE IF \A i \in 1..Len(Tail(entries)) : Tail(entries)[i].v.t # "str"
                 THEN pair1
                 ELSE pair1 \o <<"&">> \o rest

-----------------------------------------------------------------------------
(* lambda-incoming-message.ts: the getters, as functions of the event *)

\* LambdaIncomingMessage.method; undefined is Absent.
method(e) ==
    IF Has(e.httpMethod) THEN e.httpMethod
    ELSE IF e.requestContext.t = "obj" /\ e.requestContext.http.t = "obj"
         THEN e.requestContext.http.method
    ELSE Absent

\* The path that _parseUrl picks.
parseUrlPath(e) ==
    IF Has(e.path) THEN e.path
    ELSE IF Has(e.rawPath) THEN e.rawPath
    ELSE Str(<<>>)

parseUrlQuery_keepsNull(e) ==
    IF e.queryStringParameters.t = "map"
    THEN URLSearchParamsToString(
            [i \in 1..Len(e.queryStringParameters.m) |->
                [k |-> e.queryStringParameters.m[i].k,
                 v |-> Str(ToStr(e.queryStringParameters.m[i].v))]])
    ELSE IF Truthy(e.rawQueryString) THEN e.rawQueryString.s
    ELSE <<>>

\* The query that _parseUrl picks.
parseUrlQuery(e) ==
    IF e.queryStringParameters.t = "map"
    THEN URLSearchParamsToString(e.queryStringParameters.m)
    ELSE IF Truthy(e.rawQueryString) THEN e.rawQueryString.s
    ELSE <<>>

_parseUrl(e) ==
    LET path == parseUrlPath(e)
        query == parseUrlQuery(e)
    IN IF query # <<>> THEN Str(ToStr(path) \o <<"?">> \o query) ELSE path

\* LambdaIncomingMessage.httpVersion, and where it was read from.
httpVersionSource(e) ==
    IF e.requestContext.t = "obj" /\ Has(e.requestContext.protocol)
    THEN "requestContext.protocol"
    ELSE IF e.requestContext.t = "obj" /\ e.requestContext.http.t = "obj"
    THEN "requestContext.http.protocol"
    ELSE "default"

httpVersion(e) ==
    LET src == httpVersionSource(e) IN
    IF src = "requestContext.protocol"
    THEN RemoveFirst(ToStr(e.requestContext.protocol), <<"H", "T", "T", "P", "/">>)
    ELSE IF src = "requestContext.http.protocol"
    THEN RemoveFirst(ToStr(e.requestContext.http.protocol), <<"H", "T", "T", "P", "/">>)
    ELSE <<"1", ".", "1">>

-----------------------------------------------------------------------------
(* Bounds *)

MaxBodyLen == 3      \* longest request body, in characters
MaxReadSize == 3     \* largest size passed to _read
MaxSinkWrites == 2   \* writes made to one sink
MaxWrites == 2       \* chunks the middleware hands to one response
MaxErrors == 1       \* 'error' events one response sees
MaxHostLen == 5      \* longest hostname, in characters
MaxTimers == 2       \* timers one endpoint creates
MaxCalls == 3        \* setTimeout, connect, destroySoon and destroy calls
MaxStack == 3        \* frames the call stack holds
MaxPairOps == 2      \* operations applied to one request/response pair
MaxElapsed == 2      \* milliseconds that pass after appify returned
MaxHeaders == 2      \* entries of an event's headers map

-----------------------------------------------------------------------------
(* Buffers and text.  Text is a sequence of code points, a buffer a        *)
(* sequence of bytes.                                                      *)

Bytes(b) == [t |-> "bytes", b |-> b]
Text(s, enc) == [t |-> "text", s |-> s, enc |-> enc]

Utf8Bytes(c) ==
    IF c < 128 THEN <<c>>
    ELSE IF c < 2048 THEN <<192 + (c \div 64), 128 + (c % 64)>>
    ELSE <<224 + (c \div 4096), 128 + ((c \div 64) % 64), 128 + (c % 64)>>

\* Buffer.from(string, encoding)
BufferFrom(s, enc) ==
    IF enc = "latin1" THEN [i \in 1..Len(s) |-> s[i] % 256]
    ELSE Flatten([i \in 1..Len(s) |-> Utf8Bytes(s[i])])

\* Writable.write(chunk, encoding) with decodeStrings (the default): a string
\* reaches _write as a Buffer.
WritableDecode(chunk) ==
    IF chunk.t = "text" THEN Bytes(BufferFrom(chunk.s, chunk.enc)) ELSE chunk

\* What a chunk is in bytes.
ChunkBytes(chunk) ==
    IF chunk.t = "text" THEN BufferFrom(chunk.s, chunk.enc) ELSE chunk.b

RECURSIVE ChunksBytes(_)
ChunksBytes(chunks) ==
    IF chunks = <<>> THEN <<>>
    ELSE ChunkBytes(Head(chunks)) \o ChunksBytes(Tail(chunks))

\* "ok", "é" as UTF-8 and as latin1, two bytes that are no text, and the
\* two ends of the printable range (space and tilde).
SinkChunks ==
    {Text(<<111, 107>>, "utf8"), Text(<<233>>, "utf8"), Text(<<233>>, "latin1"),
     Bytes(<<200, 10>>), Bytes(<<32, 126>>)}

-----------------------------------------------------------------------------
(* event-wrapper-socket.ts *)

\* new EventWrapperSocket(body)
EventWrapperSocket(body) ==
    [readBody |-> body, readOffset |-> 0, acc |-> <<>>, bytesWritten |-> 0]

\* _read(size): the endpoint after the call, the data chunk pushed (if any)
\* and whether null was pushed.
_read_offsetAssigned(e, size) ==
    IF e.readBody.t # "str" \/ e.readBody.s = <<>>
       \/ e.readOffset >= Len(e.readBody.s)
    THEN [ep |-> e, push |-> <<>>, eof |-> TRUE]
    ELSE LET last == IF e.readOffset + size < Len(e.readBody.s)
                     THEN e.readOffset + size ELSE Len(e.readBody.s)
             chunk == SubSeq(e.readBody.s, e.readOffset + 1, last)
             off == Len(chunk)
         IN [ep |-> [e EXCEPT !.readOffset = off],
             push |-> <<[at |-> e.readOffset, data |-> chunk]>>,
             eof |-> off >= Len(e.readBody.s)]

_read_sizeAdded(e, size) ==
    IF e.readBody.t # "str" \/ e.readBody.s = <<>>
       \/ e.readOffset >= Len(e.readBody.s)
    THEN [ep |-> e, push |-> <<>>, eof |-> TRUE]
    ELSE LET last == IF e.readOffset + size < Len(e.readBody.s)
                     THEN e.readOffset + size ELSE Len(e.readBody.s)
             chunk == SubSeq(e.readBody.s, e.readOffset + 1, last)
             off == e.readOffset + size
         IN [ep |-> [e EXCEPT !.readOffset = off],
             push |-> <<[at |-> e.readOffset, data |-> chunk]>>,
             eof |-> off >= Len(e.readBody.s)]

_read(e, size) ==
    IF e.readBody.t # "str" \/ e.readBody.s = <<>>
       \/ e.readOffset >= Len(e.readBody.s)
    THEN [ep |-> e, push |-> <<>>, eof |-> TRUE]
    ELSE LET last == IF e.readOffset + size < Len(e.readBody.s)
                     THEN e.readOffset + size ELSE Len(e.readBody.s)
             chunk == SubSeq(e.readBody.s, e.readOffset + 1, last)
             off == e.readOffset + Len(chunk)
         IN [ep |-> [e EXCEPT !.readOffset = off],
             push |-> <<[at |-> e.readOffset, data |-> chunk]>>,
             eof |-> off >= Len(e.readBody.s)]

\* EventWrapperSocket._write(chunk, encoding, callback)
EventWrapperSocket_write(e, chunk) ==
    IF chunk.t = "text"
    THEN [e EXCEPT !.acc = Append(@, BufferFrom(chunk.s, chunk.enc)),
                   !.bytesWritten = @ + Len(chunk.s)]
    ELSE [e EXCEPT !.acc = Append(@, chunk.b),
                   !.bytesWritten = @ + Len(chunk.b)]

-----------------------------------------------------------------------------
(* event-wrapper-socket.ts: timers.  The endpoint together with its timers *)
(* is a record st of ep, timers, epTimeout and timerLog.  A timer is a     *)
(* BasicTimeout and the Node timer it started:                             *)
(*   node    "armed" (scheduled), "running" (its callback is being run),   *)
(*           "idle" (ran, not scheduled), "cleared" (clearTimeout)         *)
(*   handle  BasicTimeout._timeout is defined                              *)
(*   cb      what the callback given to setTimeout does: "none" (no        *)
(*           callback), "returns", "throws", "rearms" (it calls            *)
(*           setTimeout with a positive duration), "writes" (it writes a   *)
(*           chunk to the endpoint)                                        *)
(*   fires   how many times the Node timer ran the callback                *)

Callbacks == {"none", "returns", "throws", "rearms", "writes"}
Durations == {-1, 0, 5}
NoError == "none"
TimeoutRangeError == "Timeout must be greater than 0"
NotImplemented == "Method not implemented."

LogEntry(e, id) == [e |-> e, id |-> id]

\* BasicTimeout.cancel()
BasicTimeout_cancel(st, i) ==
    IF st.timers[i].handle
    THEN [st EXCEPT !.timers[i].node = "cleared", !.timers[i].handle = FALSE]
    ELSE st

\* this._timeout?.cancel()
cancelTimeout(st) ==
    IF st.epTimeout = 0 THEN st ELSE BasicTimeout_cancel(st, st.epTimeout)

\* BasicTimeout.refresh(): Timeout.refresh() schedules the Node timer again,
\* also from inside its own callback; a cleared timer has no handle left.
BasicTimeout_refresh(st, i) ==
    IF st.timers[i].handle
    THEN [st EXCEPT !.timers[i].node = "armed"]
    ELSE st

\* EventWrapperSocket.setTimeout(timeout, callback): the state after the
\* call and the error it threw.
EventWrapperSocket_setTimeout(st, timeout, callback) ==
    IF timeout = 0
    THEN [st |-> [cancelTimeout(st) EXCEPT
                     !.timerLog = Append(@, LogEntry("zero", 0))],
          error |-> NoError]
    ELSE LET c == cancelTimeout(st) IN
         IF timeout <= 0
         THEN [st |-> [c EXCEPT !.timerLog = Append(@, LogEntry("setfail", 0))],
               error |-> TimeoutRangeError]
         ELSE [st |-> [c EXCEPT
                          !.timers = Append(@, [node |-> "armed",
                                                handle |-> TRUE,
                                                cb |-> callback,
                                                fires |-> 0]),
                          !.epTimeout = Len(c.timers) + 1,
                          !.timerLog = Append(@, LogEntry("set",
                                                          Len(c.timers) + 1))],
               error |-> NoError]

\* EventWrapperSocket._write(chunk, encoding, callback), timer included
_write(st, chunk) ==
    LET r == IF st.epTimeout = 0 THEN st
             ELSE BasicTimeout_refresh(st, st.epTimeout)
    IN [r EXCEPT !.ep = EventWrapperSocket_write(@, chunk)]

CallbackChunk == Bytes(<<32, 126>>)

\* callback?.() in the function setTimeout hands to BasicTimeout
callbackBody(st, i) ==
    LET kind == st.timers[i].cb
        l == [st EXCEPT !.timerLog = Append(@, LogEntry("cb", i))]
    IN IF kind = "none" THEN [st |-> st, thrown |-> FALSE]
       ELSE IF kind = "throws" THEN [st |-> l, thrown |-> TRUE]
       ELSE IF kind = "rearms"
       THEN [st |-> EventWrapperSocket_setTimeout(l, 5, "returns").st,
             thrown |-> FALSE]
       ELSE IF kind = "writes"
       THEN [st |-> _write(l, CallbackChunk), thrown |-> FALSE]
       ELSE [st |-> l, thrown |-> FALSE]

\* The Node timer i runs BasicTimeout._callback: emit('timeout'), the
\* callback, this._timeout = undefined unless the callback threw, and the
\* finally block; a timer nobody scheduled again while it ran is idle.
BasicTimeout_callback(st, i) ==
    LET s1 == [st EXCEPT !.timers[i].node = "running",
                         !.timers[i].fires = @ + 1,
                         !.timerLog = Append(@, LogEntry("timeout", i))]
        r == callbackBody(s1, i)
        s3 == IF r.thrown
              THEN [r.st EXCEPT !.timerLog = Append(@, LogEntry("uncaught", i))]
              ELSE [r.st EXCEPT !.epTimeout = 0]
        s4 == [s3 EXCEPT !.timers[i].handle = FALSE]
    IN IF s4.timers[i].node = "running"
       THEN [s4 EXCEPT !.timers[i].node = "idle"]
       ELSE s4

\* destroySoon() and connect(port, host, connectionListener)
destroySoon(st) == [st |-> st, error |-> NotImplemented]

connect_cancelsTimer(st) == [st |-> cancelTimeout(st), error |-> NotImplemented]

connect(st) == [st |-> st, error |-> NotImplemented]

-----------------------------------------------------------------------------
(* lambda-incoming-message.ts: destroy *)

\* this._socket = this
LambdaIncomingMessage_socket == "this"

\* destroy(error) entered with depth frames of it on the stack already: it
\* calls this._socket.destroy(error); a call the stack has no room for
\* throws RangeError.  endpoint counts the calls that reached the stream's
\* own destroy.
RECURSIVE LambdaIncomingMessage_destroy(_)
LambdaIncomingMessage_destroy(depth) ==
    IF depth >= MaxStack
    THEN [error |-> "RangeError", endpoint |-> 0, depth |-> depth]
    ELSE IF LambdaIncomingMessage_socket = "this"
    THEN LambdaIncomingMessage_destroy(depth + 1)
    ELSE [error |-> NoError, endpoint |-> 1, depth |-> depth + 1]

\* LambdaIncomingMessage.setTimeout(msecs, callback) entered with depth
\* frames of it on the stack already: it calls
\* this._socket.setTimeout(msecs, callback) and returns this.
RECURSIVE LambdaIncomingMessage_setTimeout(_, _, _, _)
LambdaIncomingMessage_setTimeout(st, msecs, callback, depth) ==
    IF depth >= MaxStack
    THEN [st |-> st, error |-> "RangeError"]
    ELSE IF LambdaIncomingMessage_socket = "this"
    THEN LambdaIncomingMessage_setTimeout(st, msecs, callback, depth + 1)
    ELSE EventWrapperSocket_setTimeout(st, msecs, callback)

\* Buffer.concat(this._writeBodyAccumulator)
_writeBufferContents(e) == Flatten(e.acc)

\* LambdaIncomingMessage constructor: event.body || undefined
constructorBody(e) == IF Truthy(e.body) THEN e.body ELSE Absent

-----------------------------------------------------------------------------
(* lambda-writable.ts *)

\* new EventResponseBodyWriter(); ended is the stream's own state after end().
EventResponseBodyWriter == [acc |-> <<>>, bytesWritten |-> 0, ended |-> FALSE]

EventResponseBodyWriter_write_utf8Only(w, chunk) ==
    IF chunk.t = "text"
    THEN [w EXCEPT !.acc = Append(@, BufferFrom(chunk.s, "utf8")),
                   !.bytesWritten = @ + Len(chunk.s)]
    ELSE [w EXCEPT !.acc = Append(@, chunk.b),
                   !.bytesWritten = @ + Len(chunk.b)]

\* EventResponseBodyWriter._write(chunk, encoding, callback)
EventResponseBodyWriter_write(w, chunk) ==
    IF chunk.t = "text"
    THEN [w EXCEPT !.acc = Append(@, BufferFrom(chunk.s, chunk.enc)),
                   !.bytesWritten = @ + Len(chunk.s)]
    ELSE [w EXCEPT !.acc = Append(@, chunk.b),
                   !.bytesWritten = @ + Len(chunk.b)]

\* EventResponseBodyWriter.body
body(w) == Flatten(w.acc)

-----------------------------------------------------------------------------
(* http.ServerResponse, which LambdaResponse extends (lambda-response.ts   *)
(* line 16) and whose write() and end() it inherits.  A ServerResponse     *)
(* sends the status line and header block to its socket ahead of the first *)
(* body byte, frames the body in chunks when no length is known, and hands *)
(* everything to socket.write().  The header block is abbreviated to its   *)
(* status line and the empty line that ends it (Date, Connection and the   *)
(* response's own header lines are left out).                              *)

CRLF == <<13, 10>>
HEAD == Str(<<"H", "E", "A", "D">>)

Num(n) == [t |-> "num", n |-> n]
Undefined == [t |-> "undefined"]
Arr(a) == [t |-> "arr", a |-> a]

HeaderNames == {"set-cookie", "content-type"}
NoHeaders == [n \in HeaderNames |-> Absent]

\* new LambdaResponse(request): the ServerResponse constructor
LambdaResponse(e) ==
    [statusCode |-> Num(200), headers |-> NoHeaders, header |-> FALSE,
     headerSent |-> FALSE, chunkedEncoding |-> FALSE,
     hasBody |-> method(e) # HEAD, finished |-> FALSE]

HexDigit(d) == IF d < 10 THEN 48 + d ELSE 87 + d
RECURSIVE HexDigits(_)
HexDigits(n) ==
    IF n < 16 THEN <<HexDigit(n)>>
    ELSE HexDigits(n \div 16) \o <<HexDigit(n % 16)>>

\* "HTTP/1.1 <status>" CRLF CRLF
HeaderBlock(r) ==
    <<72, 84, 84, 80, 47, 49, 46, 49, 32>>
    \o <<48 + (r.statusCode.n \div 100), 48 + ((r.statusCode.n \div 10) % 10),
         48 + (r.statusCode.n % 10)>>
    \o CRLF \o CRLF

\* _implicitHeader() -> writeHead(statusCode): the header is built; 204, 304
\* and 1xx carry no body; a body of unknown length is chunked.
implicitHeader(r, lengthKnown) ==
    LET hb == /\ r.hasBody
              /\ r.statusCode.n \notin {204, 304}
              /\ r.statusCode.n \notin 100..199
    IN [r EXCEPT !.header = TRUE, !.hasBody = hb,
                 !.chunkedEncoding = hb /\ ~lengthKnown]

\* _send(data, encoding): the first send carries the header block.
_send(r, data) ==
    IF r.headerSent THEN [res |-> r, out |-> <<data>>]
    ELSE [res |-> [r EXCEPT !.headerSent = TRUE],
          out |-> IF data.t = "text"
                  THEN <<Text(HeaderBlock(r) \o data.s, data.enc)>>
                  ELSE <<Text(HeaderBlock(r), "latin1"), data>>]

\* write_(msg, chunk, encoding, callback, fromEnd) of a message not finished
write_(r, chunk, fromEnd) ==
    LET r1 == IF r.header THEN r ELSE implicitHeader(r, fromEnd)
        len == Len(ChunkBytes(chunk))
    IN IF ~r1.hasBody THEN [res |-> r1, out |-> <<>>]
       ELSE IF r1.chunkedEncoding /\ len # 0
       THEN LET a == _send(r1, Text(HexDigits(len), "latin1"))
            IN [res |-> a.res,
                out |-> a.out \o <<Bytes(CRLF), chunk, Bytes(CRLF)>>]
       ELSE _send(r1, chunk)

NoChunk == [t |-> "none"]
\* if (chunk): a non-empty string or any Buffer
ChunkGiven(c) == c.t = "bytes" \/ (c.t = "text" /\ c.s # <<>>)

\* The closing write of end(): the last-chunk marker, or an empty write that
\* flushes the header; its callback emits 'finish'.
endFinish(r, out, given) ==
    LET s == IF r.hasBody /\ r.chunkedEncoding
             THEN _send(r, Text(<<48>> \o CRLF \o CRLF, "latin1"))
             ELSE IF ~r.headerSent \/ given
             THEN _send(r, Text(<<>>, "latin1"))
             ELSE [res |-> r, out |-> <<>>]
    IN [res |-> [s.res EXCEPT !.finished = TRUE],
        out |-> out \o s.out,
        ticks |-> <<"finish">>]

\* ServerResponse.end(chunk, encoding, cb): what reaches the socket and what
\* is queued.  A finished response takes no chunk (an 'error' is queued) and
\* finishes no second time.
ServerResponse_end_again(r, chunk) ==
    IF ChunkGiven(chunk)
    THEN LET w == write_(r, chunk, TRUE) IN endFinish(w.res, w.out, TRUE)
    ELSE endFinish(IF r.header THEN r ELSE implicitHeader(r, TRUE), <<>>, FALSE)

ServerResponse_end(r, chunk) ==
    IF ChunkGiven(chunk)
    THEN IF r.finished
         THEN [res |-> r, out |-> <<>>, ticks |-> <<"error">>]
         ELSE LET w == write_(r, chunk, TRUE)
              IN endFinish(w.res, w.out, TRUE)
    ELSE IF r.finished
         THEN [res |-> r, out |-> <<>>, ticks |-> <<>>]
         ELSE endFinish(IF r.header THEN r ELSE implicitHeader(r, TRUE),
                        <<>>, FALSE)

\* ServerResponse.write(chunk, encoding)
ServerResponse_write(r, chunk) ==
    IF r.finished
    THEN [res |-> r, out |-> <<>>, ticks |-> <<"error">>]
    ELSE LET w == write_(r, chunk, FALSE)
         IN [res |-> w.res, out |-> w.out, ticks |-> <<>>]

\* socket.write(chunk, encoding) for each chunk in turn; a stream that was
\* ended takes no more.
RECURSIVE socketWrites(_, _)
socketWrites(w, out) ==
    IF out = <<>> \/ w.ended THEN w
    ELSE socketWrites(EventResponseBodyWriter_write(w, WritableDecode(Head(out))),
                      Tail(out))

-----------------------------------------------------------------------------
(* lambda-response.ts *)

\* LambdaResponse.end(chunk, encoding, cb): super.end(), then socket.end().
LambdaResponse_end(r, w, chunk) ==
    LET e == ServerResponse_end(r, chunk)
    IN [res |-> e.res,
        writer |-> [socketWrites(w, e.out) EXCEPT !.ended = TRUE],
        out |-> e.out,
        ticks |-> e.ticks]

\* The queued callbacks without the one that emits 'finish': the closing
\* write of a response that has no usable socket never completes.
RECURSIVE WithoutFinish(_)
WithoutFinish(t) ==
    IF t = <<>> THEN <<>>
    ELSE IF Head(t) = "finish" THEN WithoutFinish(Tail(t))
    ELSE <<Head(t)>> \o WithoutFinish(Tail(t))

\* A chunk that is neither a string nor a buffer, such as a number
BadChunk == [t |-> "number"]

\* super.end(chunk, encoding, cb) where it does not throw
superEnd(r, chunk) ==
    IF chunk = BadChunk
    THEN [res |-> r, out |-> <<>>, ticks |-> <<"error">>]
    ELSE ServerResponse_end(r, chunk)

\* What becomes of the output e of super.end and of this.socket!.end(): only
\* an attached socket receives what is sent and lets the closing write
\* complete; a destroyed socket drops it; with no socket it stays in the
\* response's output queue and this.socket is null.
socketEnd(w, sock, e) ==
    IF sock = "attached"
    THEN [res |-> e.res,
          writer |-> [socketWrites(w, e.out) EXCEPT !.ended = TRUE],
          out |-> e.out, ticks |-> e.ticks, error |-> NoError]
    ELSE IF sock = "detached"
    THEN [res |-> e.res, writer |-> w, out |-> <<>>,
          ticks |-> WithoutFinish(e.ticks), error |-> "TypeError"]
    ELSE [res |-> e.res, writer |-> [w EXCEPT !.ended = TRUE], out |-> <<>>,
          ticks |-> WithoutFinish(e.ticks), error |-> NoError]

\* The body of end()'s try block for a response whose socket is sock:
\* super.end(chunk, encoding, cb), which throws on a chunk of the wrong type
\* unless the response is finished, then this.socket!.end().
endTryBlock(r, w, sock, chunk) ==
    IF chunk = BadChunk /\ ~r.finished
    THEN [res |-> r, writer |-> w, out |-> <<>>, ticks |-> <<>>,
          error |-> "ERR_INVALID_ARG_TYPE"]
    ELSE socketEnd(w, sock, superEnd(r, chunk))

LambdaResponse_end_noCatch(r, w, sock, chunk) ==
    LET b == endTryBlock(r, w, sock, chunk)
    IN [res |-> b.res, writer |-> b.writer, out |-> b.out, ticks |-> b.ticks,
        caught |-> NoError, thrown |-> b.error,
        returns |-> IF b.error = NoError THEN "this" ELSE "none"]

\* LambdaResponse.end(chunk, encoding, cb) with its try/catch: what the
\* catch block caught, what end() threw to its caller, what it returned.
LambdaResponse_end_try(r, w, sock, chunk) ==
    LET b == endTryBlock(r, w, sock, chunk)
    IN [res |-> b.res, writer |-> b.writer, out |-> b.out, ticks |-> b.ticks,
        caught |-> b.error, thrown |-> NoError, returns |-> "this"]

RECURSIVE Join(_, _)
Join(a, sep) ==
    IF a = <<>> THEN <<>>
    ELSE IF Len(a) = 1 THEN a[1]
    ELSE a[1] \o sep \o Join(Tail(a), sep)

\* _makeHeaders(): one flat value per header that is set
_makeHeaders(r) ==
    [n \in HeaderNames |->
        LET value == IF n = "set-cookie" /\ r.headers[n].t = "arr"
                     THEN Str(Join(r.headers[n].a, <<";", " ">>))
                     ELSE r.headers[n]
        IN IF value.t = "arr" THEN Str(Join(value.a, <<",">>)) ELSE value]

B64Char(i) ==
    IF i < 26 THEN 65 + i
    ELSE IF i < 52 THEN 71 + i
    ELSE IF i < 62 THEN i - 4
    ELSE IF i = 62 THEN 43 ELSE 47

\* Buffer.toString('base64')
RECURSIVE Base64(_)
Base64(b) ==
    IF b = <<>> THEN <<>>
    ELSE IF Len(b) = 1
    THEN <<B64Char(b[1] \div 4), B64Char((b[1] % 4) * 16), 61, 61>>
    ELSE IF Len(b) = 2
    THEN <<B64Char(b[1] \div 4), B64Char((b[1] % 4) * 16 + (b[2] \div 16)),
           B64Char((b[2] % 16) * 4), 61>>
    ELSE <<B64Char(b[1] \div 4), B64Char((b[1] % 4) * 16 + (b[2] \div 16)),
           B64Char((b[2] % 16) * 4 + (b[3] \div 64)), B64Char(b[3] % 64)>>
         \o Base64(SubSeq(b, 4, Len(b)))

\* Buffer.toString(): UTF-8 decoding; a byte below 128 is its own character,
\* and only such bytes reach it here.
BufferToString(b) == [i \in 1..Len(b) |-> IF b[i] < 128 THEN b[i] ELSE 65533]

_makeBodyResponse_spaceUnprintable(w) ==
    LET b == body(w) IN
    IF \E i \in 1..Len(b) : b[i] <= 32 \/ b[i] > 126
    THEN [body |-> Base64(b), isBase64Encoded |-> TRUE]
    ELSE [body |-> BufferToString(b), isBase64Encoded |-> FALSE]

\* _makeBodyResponse()
_makeBodyResponse(w) ==
    LET b == body(w) IN
    IF \E i \in 1..Len(b) : b[i] < 32 \/ b[i] > 126
    THEN [body |-> Base64(b), isBase64Encoded |-> TRUE]
    ELSE [body |-> BufferToString(b), isBase64Encoded |-> FALSE]

RECURSIVE ParseInt(_, _)
ParseInt(s, acc) ==
    IF s = <<>> THEN acc
    ELSE ParseInt(Tail(s), 10 * acc
           + (CHOOSE d \in 0..9 : <<"0", "1", "2", "3", "4", "5", "6", "7", "8", "9">>[d + 1] = Head(s)))

_lambdaStatusCode_unparsed(r) ==
    IF r.statusCode.t = "undefined" THEN Undefined
    ELSE r.statusCode

\* _lambdaStatusCode()
_lambdaStatusCode(r) ==
    IF r.statusCode.t = "undefined" THEN Undefined
    ELSE IF r.statusCode.t = "str" THEN Num(ParseInt(r.statusCode.s, 0))
    ELSE r.statusCode

\* lambdaResponse()
lambdaResponse(r, w) ==
    LET b == _makeBodyResponse(w)
        sc == _lambdaStatusCode(r)
    IN [statusCode |-> IF sc.t = "num" /\ sc.n # 0 THEN sc ELSE Num(200),
        body |-> b.body,
        headers |-> _makeHeaders(r),
        isBase64Encoded |-> b.isBase64Encoded]

\* String.prototype.split(sep)
RECURSIVE Split(_, _)
Split(s, sep) ==
    IF \E i \in 1..Len(s) : StartsWith(SubSeq(s, i, Len(s)), sep)
    THEN LET i == CHOOSE i \in 1..Len(s) :
                    /\ StartsWith(SubSeq(s, i, Len(s)), sep)
                    /\ \A j \in 1..(i - 1) : ~StartsWith(SubSeq(s, j, Len(s)), sep)
         IN <<SubSeq(s, 1, i - 1)>> \o Split(SubSeq(s, i + Len(sep), Len(s)), sep)
    ELSE <<s>>

lambdaResponseV2_keepsHeader(r, w) ==
    LET b == _makeBodyResponse(w)
        h == _makeHeaders(r)
        cookies == IF h["set-cookie"].t # "absent"
                   THEN Split(ToStr(h["set-cookie"]), <<";", " ">>)
                   ELSE <<>>
        response == [statusCode |-> _lambdaStatusCode(r),
                     body |-> b.body,
                     headers |-> h,
                     isBase64Encoded |-> b.isBase64Encoded]
    IN IF Len(cookies) > 0
       THEN [statusCode |-> response.statusCode, body |-> response.body,
             headers |-> response.headers,
             isBase64Encoded |-> response.isBase64Encoded,
             cookies |-> cookies]
       ELSE response

\* lambdaResponseV2()
lambdaResponseV2(r, w) ==
    LET b == _makeBodyResponse(w)
        h == _makeHeaders(r)
        cookies == IF h["set-cookie"].t # "absent"
                   THEN Split(ToStr(h["set-cookie"]), <<";", " ">>)
                   ELSE <<>>
        headers == IF h["set-cookie"].t # "absent"
                   THEN [h EXCEPT !["set-cookie"] = Absent] ELSE h
        response == [statusCode |-> _lambdaStatusCode(r),
                     body |-> b.body,
                     headers |-> headers,
                     isBase64Encoded |-> b.isBase64Encoded]
    IN IF Len(cookies) > 0
       THEN [statusCode |-> response.statusCode, body |-> response.body,
             headers |-> response.headers,
             isBase64Encoded |-> response.isBase64Encoded,
             cookies |-> cookies]
       ELSE response

toLambdaResponse_swapped(e, r, w) ==
    IF detectApiGatewayVersion(e) = "v1"
    THEN lambdaResponseV2(r, w) ELSE lambdaResponse(r, w)

\* set url(url) of the response, on a response r paired with a request
\* whose _url is requestUrl: what it leaves of the two
LambdaResponse_setUrl_forwards(r, requestUrl, url) ==
    [res |-> r, reqUrl |-> url]

LambdaResponse_setUrl(r, requestUrl, url) ==
    [res |-> r, reqUrl |-> requestUrl]

\* toLambdaResponse()
toLambdaResponse(e, r, w) ==
    IF detectApiGatewayVersion(e) = "v1"
    THEN lambdaResponse(r, w) ELSE lambdaResponseV2(r, w)

-----------------------------------------------------------------------------
(* index.ts *)

\* The 'finish' listener of appify: the value it resolves the promise with.
appifyFinishResult(e, r, w) ==
    IF detectApiGatewayVersion(e) = "v2"
    THEN lambdaResponseV2(r, w) ELSE lambdaResponse(r, w)

-----------------------------------------------------------------------------
(* The state before anything was constructed *)

NoObject == [t |-> "none"]

EventsIdle ==
    /\ validated = "idle"
    /\ pair = "none"
    /\ reqUrl = Absent

EndpointIdle ==
    /\ ep = NoObject
    /\ pushed = <<>>
    /\ eofCount = 0
    /\ readCalls = 0
    /\ epLog = <<>>

ResponseIdle ==
    /\ appified = "idle"
    /\ listeners = {}
    /\ promise = "none"
    /\ result = NoObject
    /\ res = NoObject
    /\ writer = NoObject
    /\ writerLog = <<>>
    /\ resLog = <<>>
    /\ ticks = <<>>
    /\ finishCount = 0
    /\ errorCount = 0

\* No call made yet
NoCall == [op |-> "none", error |-> "none", caught |-> "none", returns |-> "none"]

BaseIdle ==
    /\ guards = NoObject
    /\ appSubdomainLength = 2
    /\ subCall = NoObject
    /\ timers = <<>>
    /\ epTimeout = 0
    /\ timerLog = <<>>
    /\ raised = NoCall
    /\ destroyDepth = 0
    /\ destroyCalls = 0
    /\ calls = 0
    /\ resSocket = "attached"

NoPairs == [p |-> <<>>, arrays |-> <<>>]

PairsIdle ==
    /\ pairs = NoPairs
    /\ pairLog = <<>>

NoOptions == [timeout |-> 0]

RequestIdle ==
    /\ access = NoObject
    /\ transport = NoObject

OptionsIdle ==
    /\ options = NoOptions
    /\ elapsed = 0

AuxIdle ==
    /\ BaseIdle
    /\ ipCall = NoObject
    /\ PairsIdle
    /\ OptionsIdle
    /\ RequestIdle

-----------------------------------------------------------------------------
(* SpecEvents: any event is validated and, when accepted, turned into a    *)
(* request/response pair.                                                  *)

InitEvents ==
    /\ event \in Events
    /\ EventsIdle
    /\ EndpointIdle
    /\ ResponseIdle
    /\ AuxIdle

\* validateApiGatewayEvent(event)
ValidateEvent ==
    /\ validated = "idle"
    /\ validated' = validateApiGatewayEvent(event)
    /\ UNCHANGED <<auxVars, event, pair, reqUrl, epVars, resVars>>

\* createRequestResponsePair(event)
CreatePair ==
    /\ validated = "accepted"
    /\ pair = "none"
    /\ pair' = "created"
    /\ reqUrl' = _parseUrl(event)
    /\ ep' = EventWrapperSocket(constructorBody(event))
    /\ res' = LambdaResponse(event)
    /\ writer' = EventResponseBodyWriter
    /\ UNCHANGED <<auxVars, event, validated, pushed, eofCount, readCalls, epLog,
                   appified, listeners, promise, result, writerLog, resLog,
                   ticks, finishCount, errorCount>>

\* isAPIGatewayV1(event) and isAPIGatewayV2(event)
TypeGuards ==
    /\ guards = NoObject
    /\ guards' = [v1 |-> isAPIGatewayV1(event), v2 |-> isAPIGatewayV2(event)]
    /\ UNCHANGED <<extVars, evVars, epVars, resVars, appSubdomainLength, subCall,
                   tmVars, callVars>>

NextEvents == ValidateEvent \/ CreatePair \/ TypeGuards

SpecEvents == InitEvents /\ [][NextEvents]_vars

-----------------------------------------------------------------------------
(* C7 *)

\* The identifying fields of the format that detection assigns to e.
IdentifyingFieldsTruthy(e) ==
    IF detectApiGatewayVersion(e) = "v2"
    THEN Truthy(e.routeKey) /\ Truthy(e.rawPath)
    ELSE Truthy(e.httpMethod) /\ Truthy(e.path)

\* C7: validateApiGatewayEvent(e) returns, never throws; it returns true
\* exactly when e is a non-null object whose identifying fields, for the
\* format detectApiGatewayVersion assigns to it, are present and truthy
\* (httpMethod and path for A, routeKey and rawPath for B), so it is false
\* for null, undefined and every non-object.
C7_ValidateCharacterized ==
    validated # "idle" =>
        /\ validated \in {"accepted", "rejected"}
        /\ validated = "accepted" <=>
              (event.kind = "object" /\ IdentifyingFieldsTruthy(event))

\* An event of both formats' fields that detection calls B is accepted on
\* routeKey and rawPath although its path is no string.
C7_Witness ==
    /\ validated = "accepted"
    /\ detectApiGatewayVersion(event) = "v2"
    /\ ~Truthy(event.path)
    /\ Has(event.httpMethod)

-----------------------------------------------------------------------------
(* C9 *)

\* What each format prescribes: A keeps the method in httpMethod, the path
\* in path and the protocol in requestContext.protocol; B keeps them in
\* requestContext.http.method, rawPath and requestContext.http.protocol.
FormatMethod(e) ==
    IF detectApiGatewayVersion(e) = "v1" THEN e.httpMethod
    ELSE IF e.requestContext.t = "obj" /\ e.requestContext.http.t = "obj"
         THEN e.requestContext.http.method
    ELSE Absent

FormatPath(e) ==
    IF detectApiGatewayVersion(e) = "v1" THEN e.path ELSE e.rawPath

FormatProtocolSource(e) ==
    IF detectApiGatewayVersion(e) = "v1"
    THEN "requestContext.protocol" ELSE "requestContext.http.protocol"

\* C9: every version-dependent operation on an event treats it as the format
\* that detectApiGatewayVersion returns for it: the request's method, the
\* path of its url, the field its httpVersion is read from, and the result
\* shape chosen by toLambdaResponse() and by appify at finish.
C9_DetectionUniform ==
    pair = "created" =>
        /\ method(event) = FormatMethod(event)
        /\ parseUrlPath(event) = FormatPath(event)
        /\ httpVersionSource(event) \in {FormatProtocolSource(event), "default"}
        /\ toLambdaResponse(event, res, writer)
              = appifyFinishResult(event, res, writer)

-----------------------------------------------------------------------------
(* SpecRead: a request is built on an event with some body and the stream  *)
(* machinery calls _read until end-of-stream was pushed.                   *)

SeqsUpTo(S, n) == UNION {[1..k -> S] : k \in 0..n}

\* Body text over "a", "b" and "é"; also no body, null, and the empty string.
ReadBodies ==
    {Absent, Null} \cup {Str(s) : s \in SeqsUpTo({97, 98, 233}, MaxBodyLen)}

ReadEvents ==
    [kind : {"object"}, version : {Absent}, httpMethod : {POST},
     path : {PathX}, routeKey : {Absent}, rawPath : {Absent},
     requestContext : {RCv1}, queryStringParameters : {Absent},
     rawQueryString : {Absent}, body : ReadBodies]

\* new LambdaIncomingMessage(event)
InitRead ==
    /\ event \in ReadEvents
    /\ validated = "idle"
    /\ pair = "none"
    /\ reqUrl = _parseUrl(event)
    /\ ep = EventWrapperSocket(constructorBody(event))
    /\ pushed = <<>>
    /\ eofCount = 0
    /\ readCalls = 0
    /\ epLog = <<>>
    /\ ResponseIdle
    /\ AuxIdle

\* _read(size); a stream that pushed null is read no more.
Read ==
    /\ eofCount = 0
    /\ \E size \in 1..MaxReadSize :
         LET r == _read(ep, size) IN
         /\ ep' = r.ep
         /\ pushed' = pushed \o r.push
         /\ eofCount' = IF r.eof THEN eofCount + 1 ELSE eofCount
    /\ readCalls' = readCalls + 1
    /\ UNCHANGED <<auxVars, evVars, epLog, resVars>>

NextRead == Read

SpecRead == InitRead /\ [][NextRead]_vars

-----------------------------------------------------------------------------
(* C1 *)

\* The request body as the event carries it; no body is the empty text.
EventBodyText == IF Truthy(event.body) THEN event.body.s ELSE <<>>

PushedText == Flatten([i \in 1..Len(pushed) |-> pushed[i].data])

-----------------------------------------------------------------------------
(* SpecSinks: the two sinks on their own, an EventWrapperSocket and an     *)
(* EventResponseBodyWriter, each written a few chunks.  A chunk arrives    *)
(* through write(), which hands a string to _write as a Buffer, or by a    *)
(* direct call of _write, which hands it over as it is.                    *)

SinkEvent ==
    [kind |-> "object", version |-> Absent, httpMethod |-> GET,
     path |-> PathX, routeKey |-> Absent, rawPath |-> Absent,
     requestContext |-> RCv1, queryStringParameters |-> Absent,
     rawQueryString |-> Absent, body |-> Null]

\* new EventWrapperSocket(); new EventResponseBodyWriter()
InitSinks ==
    /\ event = SinkEvent
    /\ EventsIdle
    /\ ep = EventWrapperSocket(Absent)
    /\ pushed = <<>>
    /\ eofCount = 0
    /\ readCalls = 0
    /\ epLog = <<>>
    /\ appified = "idle"
    /\ listeners = {}
    /\ promise = "none"
    /\ result = NoObject
    /\ res = NoObject
    /\ writer = EventResponseBodyWriter
    /\ writerLog = <<>>
    /\ resLog = <<>>
    /\ ticks = <<>>
    /\ finishCount = 0
    /\ errorCount = 0
    /\ AuxIdle

\* write(chunk) or _write(chunk) on an endpoint that has no timer, so that
\* _write's this._timeout?.refresh() does nothing
EndpointWrite ==
    /\ Len(epLog) < MaxSinkWrites
    /\ \E chunk \in SinkChunks, direct \in BOOLEAN :
         /\ ep' = EventWrapperSocket_write(
                     ep, IF direct THEN chunk ELSE WritableDecode(chunk))
         /\ epLog' = Append(epLog, chunk)
    /\ UNCHANGED <<auxVars, evVars, pushed, eofCount, readCalls, resVars>>

WriterWrite ==
    /\ Len(writerLog) < MaxSinkWrites
    /\ \E chunk \in SinkChunks, direct \in BOOLEAN :
         /\ writer' = EventResponseBodyWriter_write(
                         writer, IF direct THEN chunk ELSE WritableDecode(chunk))
         /\ writerLog' = Append(writerLog, chunk)
    /\ UNCHANGED <<auxVars, evVars, epVars, appified, listeners, promise, result, res,
                   resLog, ticks, finishCount, errorCount>>

NextSinks == EndpointWrite \/ WriterWrite

SpecSinks == InitSinks /\ [][NextSinks]_vars

-----------------------------------------------------------------------------
(* C2 *)

-----------------------------------------------------------------------------
(* C3 *)

AllPrintable(b) == \A i \in 1..Len(b) : b[i] >= 32 /\ b[i] <= 126

B64Index(c) == CHOOSE i \in 0..63 : B64Char(i) = c

\* Decoding of padded base64 text.
RECURSIVE Base64Decode(_)
Base64Decode(t) ==
    IF Len(t) < 4 THEN <<>>
    ELSE LET a == B64Index(t[1])
             b == B64Index(t[2])
             rest == Base64Decode(SubSeq(t, 5, Len(t)))
         IN IF t[3] = 61 THEN <<a * 4 + (b \div 16)>>
            ELSE IF t[4] = 61
            THEN <<a * 4 + (b \div 16), (b % 16) * 16 + (B64Index(t[3]) \div 4)>>
            ELSE <<a * 4 + (b \div 16),
                   (b % 16) * 16 + (B64Index(t[3]) \div 4),
                   (B64Index(t[3]) % 4) * 64 + B64Index(t[4])>> \o rest

\* C3: when every written byte is in 32..126 (the empty body included) the
\* body comes back as the literal text with isBase64Encoded = false;
\* otherwise isBase64Encoded = true and decoding the body from base64 gives
\* back exactly the written bytes.  Only the bytes decide.
C3_PrintableOrBase64 ==
    LET written == ChunksBytes(writerLog)
        m == _makeBodyResponse(writer)
    IN IF AllPrintable(written)
       THEN m.isBase64Encoded = FALSE /\ m.body = written
       ELSE /\ m.isBase64Encoded = TRUE
            /\ Len(m.body) % 4 = 0
            /\ Base64Decode(m.body) = written

\* Printable text with a space in it, written and returned as it is.
C3_Witness ==
    /\ writerLog # <<>>
    /\ AllPrintable(ChunksBytes(writerLog))
    /\ \E i \in 1..Len(body(writer)) : body(writer)[i] = 32
    /\ _makeBodyResponse(writer).isBase64Encoded = FALSE

-----------------------------------------------------------------------------
(* Spec: appify(event), then the middleware works on the response (status, *)
(* headers, write, end, in any order and any number of times), queued      *)
(* callbacks run, and an 'error' may be emitted on the response.           *)

\* GET /x as a REST event, with and without a version; GET /y as an HTTP API
\* event; an object with no path; null and undefined.
EventA ==
    [kind |-> "object", version |-> Absent, httpMethod |-> GET,
     path |-> PathX, routeKey |-> Absent, rawPath |-> Absent,
     requestContext |-> RCv1, queryStringParameters |-> Absent,
     rawQueryString |-> Absent, body |-> Null]
EventB ==
    [kind |-> "object", version |-> V20, httpMethod |-> Absent,
     path |-> Absent, routeKey |-> RouteKeyY, rawPath |-> PathY,
     requestContext |-> RCv2, queryStringParameters |-> Absent,
     rawQueryString |-> Absent, body |-> Null]
SampleEvents ==
    {EventA, [EventA EXCEPT !.version = V10], EventB,
     [EventA EXCEPT !.path = Absent]}
    \cup {e \in NonObjectEvents : e.kind \in {"null", "undefined"}}

StatusCodes == {201, 204}

CookieA == <<"a", "=", "1">>
CookieB == <<"b", "=", "2">>
TextPlain == <<"t", "e", "x", "t", "/", "p", "l", "a", "i", "n">>
HeaderValues(n) ==
    IF n = "set-cookie"
    THEN {Str(CookieA), Str(CookieA \o <<";", " ">> \o CookieB),
          Arr(<<CookieA, CookieB>>)}
    ELSE {Str(TextPlain)}

\* "ok", "é", and two bytes that are no text
ResponseChunks ==
    {Text(<<111, 107>>, "utf8"), Text(<<233>>, "utf8"), Bytes(<<200, 10>>)}

\* The callbacks of kind k waiting in the tick queue
Queued(k) == Cardinality({i \in 1..Len(ticks) : ticks[i] = k})

Init ==
    /\ event \in SampleEvents
    /\ EventsIdle
    /\ EndpointIdle
    /\ ResponseIdle
    /\ AuxIdle

appify_pairFirst(e) ==
    IF e.kind # "object"
    THEN [appified |-> "threw", pair |-> "none", listeners |-> {},
          promise |-> "none"]
    ELSE IF validateApiGatewayEvent(e) # "accepted"
    THEN [appified |-> "threw", pair |-> "created", listeners |-> {},
          promise |-> "none"]
    ELSE [appified |-> "ready", pair |-> "created",
          listeners |-> {"finish", "error"}, promise |-> "pending"]

\* appify(event, context, options): what it leaves behind
appify(e) ==
    IF validateApiGatewayEvent(e) # "accepted"
    THEN [appified |-> "threw", pair |-> "none", listeners |-> {},
          promise |-> "none"]
    ELSE [appified |-> "ready", pair |-> "created",
          listeners |-> {"finish", "error"}, promise |-> "pending"]

Appify ==
    /\ appified = "idle"
    /\ validated' = validateApiGatewayEvent(event)
    /\ LET a == appify(event) IN
       /\ appified' = a.appified
       /\ pair' = a.pair
       /\ listeners' = a.listeners
       /\ promise' = a.promise
       /\ IF a.pair = "created"
          THEN /\ reqUrl' = _parseUrl(event)
               /\ ep' = EventWrapperSocket(constructorBody(event))
               /\ res' = LambdaResponse(event)
               /\ writer' = EventResponseBodyWriter
          ELSE UNCHANGED <<reqUrl, ep, res, writer>>
    /\ UNCHANGED <<auxVars, event, pushed, eofCount, readCalls, epLog, result,
                   writerLog, resLog, ticks, finishCount, errorCount>>

\* response.statusCode = s, while the result is still to be produced
SetStatus ==
    /\ appified = "ready"
    /\ promise = "pending"
    /\ \E s \in StatusCodes :
         /\ res.statusCode # Num(s)
         /\ res' = [res EXCEPT !.statusCode = Num(s)]
    /\ UNCHANGED <<auxVars, evVars, epVars, appified, listeners, promise, result,
                   writer, writerLog, resLog, ticks, finishCount, errorCount>>

\* response.setHeader(name, value); it throws once the header was built
SetHeader ==
    /\ appified = "ready"
    /\ ~res.header
    /\ \E n \in HeaderNames : \E v \in HeaderValues(n) :
         /\ res.headers[n] # v
         /\ res' = [res EXCEPT !.headers[n] = v]
    /\ UNCHANGED <<auxVars, evVars, epVars, appified, listeners, promise, result,
                   writer, writerLog, resLog, ticks, finishCount, errorCount>>

\* response.write(chunk, encoding)
Write ==
    /\ appified = "ready"
    /\ IF res.finished
       THEN errorCount + Queued("error") < MaxErrors
       ELSE Len(resLog) < MaxWrites
    /\ \E chunk \in ResponseChunks :
         LET w == ServerResponse_write(res, chunk) IN
         /\ res' = w.res
         /\ writer' = socketWrites(writer, w.out)
         /\ writerLog' = IF writer.ended THEN writerLog ELSE writerLog \o w.out
         /\ resLog' = IF res.finished THEN resLog ELSE Append(resLog, chunk)
         /\ ticks' = ticks \o w.ticks
    /\ UNCHANGED <<auxVars, evVars, epVars, appified, listeners, promise, result,
                   finishCount, errorCount>>

\* response.end(chunk, encoding)
End ==
    /\ appified = "ready"
    /\ \E chunk \in ResponseChunks \cup {NoChunk} :
         /\ (res.finished /\ ChunkGiven(chunk)) =>
               errorCount + Queued("error") < MaxErrors
         /\ LET e == LambdaResponse_end(res, writer, chunk) IN
            /\ res' = e.res
            /\ writer' = e.writer
            /\ writerLog' = IF writer.ended THEN writerLog
                            ELSE writerLog \o e.out
            /\ resLog' = IF ~res.finished /\ ChunkGiven(chunk)
                         THEN Append(resLog, chunk) ELSE resLog
            /\ ticks' = ticks \o e.ticks
    /\ UNCHANGED <<auxVars, evVars, epVars, appified, listeners, promise, result,
                   finishCount, errorCount>>

settle_errorResolves(p, signal) ==
    IF p = "pending" THEN "resolved" ELSE p

\* The listeners of appify's promise: 'finish' resolves, 'error' rejects, and
\* a settled promise stays as it is.
settle(p, signal) ==
    IF p # "pending" THEN p
    ELSE IF signal = "finish" THEN "resolved" ELSE "rejected"

\* What the promise holds after the signal.
settledResult(p, signal) ==
    IF p = "pending" /\ settle(p, signal) = "resolved"
    THEN appifyFinishResult(event, res, writer) ELSE result

\* The oldest queued callback runs: the response emits 'finish' or 'error'.
RunTick ==
    /\ ticks # <<>>
    /\ ticks' = Tail(ticks)
    /\ finishCount' = IF Head(ticks) = "finish" THEN finishCount + 1
                      ELSE finishCount
    /\ errorCount' = IF Head(ticks) = "error" THEN errorCount + 1
                     ELSE errorCount
    /\ promise' = IF Head(ticks) \in listeners
                  THEN settle(promise, Head(ticks)) ELSE promise
    /\ result' = IF Head(ticks) \in listeners
                 THEN settledResult(promise, Head(ticks)) ELSE result
    /\ UNCHANGED <<auxVars, evVars, epVars, appified, listeners, res, writer,
                   writerLog, resLog>>

\* response.emit('error', err), by the middleware or the runtime
EmitError ==
    /\ appified = "ready"
    /\ errorCount + Queued("error") < MaxErrors
    /\ errorCount' = errorCount + 1
    /\ promise' = settle(promise, "error")
    /\ result' = settledResult(promise, "error")
    /\ UNCHANGED <<auxVars, evVars, epVars, appified, listeners, res, writer,
                   writerLog, resLog, ticks, finishCount>>

Next ==
    \/ Appify
    \/ SetStatus
    \/ SetHeader
    \/ Write
    \/ End
    \/ RunTick
    \/ EmitError

Spec == Init /\ [][Next]_vars

-----------------------------------------------------------------------------
(* C4 *)

-----------------------------------------------------------------------------
(* C5 *)

\* C5: for a valid format-A event, when the middleware sets the status,
\* writes printable ASCII text and ends the response, the promise resolves
\* to a result whose statusCode is the status set, whose body is the text
\* written and whose isBase64Encoded is false.
C5_EndToEndResult ==
    [][(/\ promise = "pending"
        /\ promise' = "resolved"
        /\ detectApiGatewayVersion(event) = "v1"
        /\ resLog # <<>>
        /\ AllPrintable(ChunksBytes(resLog)))
       => (/\ result'.statusCode = res.statusCode
           /\ result'.body = ChunksBytes(resLog)
           /\ result'.isBase64Encoded = FALSE)]_vars

-----------------------------------------------------------------------------
(* C6 *)

\* C6: the promise appify returns is pending as long as the response emitted
\* neither 'finish' nor 'error' (so for ever when the middleware never ends
\* the response); it becomes resolved only in a step in which 'finish' is
\* emitted and rejected only in a step in which 'error' is emitted, and
\* 'finish' is emitted only by a response that was ended.
C6_PromiseFollowsSignals ==
    /\ []((appified = "ready" /\ finishCount = 0 /\ errorCount = 0)
             => promise = "pending")
    /\ [](finishCount > 0 => res.finished)
    /\ [][/\ (promise # "resolved" /\ promise' = "resolved")
                => (promise = "pending" /\ finishCount' = finishCount + 1)
          /\ (promise # "rejected" /\ promise' = "rejected")
                => (promise = "pending" /\ errorCount' = errorCount + 1)]_vars

\* The response got its status and a chunk but was never ended and saw no
\* error: the promise is pending and nothing is queued.
C6_Witness ==
    /\ appified = "ready"
    /\ promise = "pending"
    /\ resLog # <<>>
    /\ ~res.finished
    /\ ticks = <<>>

-----------------------------------------------------------------------------
(* C8 *)

\* C8: when validateApiGatewayEvent does not accept the event, appify throws
\* and leaves nothing behind: no request, no response, no endpoint, no
\* writer, no listener and no promise.
C8_InvalidFailsFast ==
    (appified # "idle" /\ validateApiGatewayEvent(event) # "accepted") =>
        /\ appified = "threw"
        /\ validated = "rejected"
        /\ pair = "none"
        /\ ep = NoObject
        /\ res = NoObject
        /\ writer = NoObject
        /\ reqUrl = Absent
        /\ listeners = {}
        /\ promise = "none"
        /\ ticks = <<>>

\* appify threw on an object that has a method but no path.
C8_Witness ==
    /\ appified = "threw"
    /\ event.kind = "object"
    /\ Truthy(event.httpMethod)

-----------------------------------------------------------------------------
(* C10 *)

ShapeA == {"statusCode", "body", "headers", "isBase64Encoded"}

\* C10: for a format-A event, whatever headers were set (set-cookie, single
\* or array valued, included) and whatever was written, the result appify
\* resolves with and the result toLambdaResponse() builds have exactly the
\* fields statusCode, body, headers and isBase64Encoded, and no cookies.
C10_FormatAShape ==
    (appified = "ready" /\ detectApiGatewayVersion(event) = "v1") =>
        /\ DOMAIN toLambdaResponse(event, res, writer) = ShapeA
        /\ promise = "resolved" => DOMAIN result = ShapeA

\* A format-A response with an array of cookies was finished and resolved.
C10_Witness ==
    /\ promise = "resolved"
    /\ detectApiGatewayVersion(event) = "v1"
    /\ res.headers["set-cookie"].t = "arr"
    /\ resLog # <<>>

-----------------------------------------------------------------------------
(* C11 *)

Contains(s, pat) == \E i \in 1..Len(s) : StartsWith(SubSeq(s, i, Len(s)), pat)

\* The set-cookie header of the response as one string: an array is its
\* values joined with "; ".
FlatCookieHeader(r) ==
    IF r.headers["set-cookie"].t = "arr"
    THEN Join(r.headers["set-cookie"].a, <<";", " ">>)
    ELSE r.headers["set-cookie"].s

\* x is the format-B result of a response r as far as cookies go.
CookiesSplitOut(x, r) ==
    /\ x.headers["set-cookie"] = Absent
    /\ x.headers["content-type"] = r.headers["content-type"]
    /\ IF Has(r.headers["set-cookie"])
       THEN /\ "cookies" \in DOMAIN x
            /\ x.cookies # <<>>
            /\ Join(x.cookies, <<";", " ">>) = FlatCookieHeader(r)
            /\ \A i \in 1..Len(x.cookies) : ~Contains(x.cookies[i], <<";", " ">>)
       ELSE "cookies" \notin DOMAIN x

\* C11: for a format-B event, a set-cookie header set on the response comes
\* back as the cookies field, its value split on "; " ("a=1; b=2" gives
\* "a=1", "b=2"), and not as a header; with no set-cookie header there is no
\* cookies field; a cookies field is never empty.
C11_CookiesSplit ==
    (appified = "ready" /\ detectApiGatewayVersion(event) = "v2") =>
        /\ CookiesSplitOut(toLambdaResponse(event, res, writer), res)
        /\ promise = "resolved" => CookiesSplitOut(result, res)

\* A format-B response with the header "a=1; b=2" resolved with two cookies.
C11_Witness ==
    /\ promise = "resolved"
    /\ detectApiGatewayVersion(event) = "v2"
    /\ res.headers["set-cookie"] = Str(CookieA \o <<";", " ">> \o CookieB)
    /\ result.cookies = <<CookieA, CookieB>>

-----------------------------------------------------------------------------
(* C12 *)

\* The entries of a query map whose value is a string, in the map's order,
\* each as key=value, joined by "&".  The map's order is the order in which
\* the object enumerates its keys.
NonNullEntries(m) == SelectSeq(m, LAMBDA en : en.v.t = "str")
EncodedQuery(m) ==
    Join([i \in 1..Len(NonNullEntries(m)) |->
             UrlEncode(NonNullEntries(m)[i].k) \o <<"=">>
                \o UrlEncode(NonNullEntries(m)[i].v.s)],
         <<"&">>)

\* C12: the url of a request built on a format-A event with path p is p, "?"
\* and the non-null entries of queryStringParameters URL-encoded as
\* key=value and joined by "&" in the map's order; with no query parameters
\* it is p alone.
C12_UrlFromQueryMap ==
    (pair = "created" /\ detectApiGatewayVersion(event) = "v1") =>
        IF event.queryStringParameters.t = "map"
        THEN IF EncodedQuery(event.queryStringParameters.m) # <<>>
             THEN reqUrl = Str(event.path.s \o <<"?">>
                               \o EncodedQuery(event.queryStringParameters.m))
             ELSE reqUrl = event.path
        ELSE ~Truthy(event.rawQueryString) => reqUrl = event.path

\* path /x with {a: null, "x y": "2 &", c: null}: one entry, encoded.
C12_Witness ==
    /\ pair = "created"
    /\ detectApiGatewayVersion(event) = "v1"
    /\ event.queryStringParameters = QueryNulls
    /\ reqUrl = Str(<<"/", "x", "?", "x", "+", "y", "=", "2", "+", "%", "2", "6">>)

-----------------------------------------------------------------------------
(* C13 *)

\* C13: the url of a request built on a format-B event with rawPath p and a
\* non-empty rawQueryString q is p, "?" and q as it is, whether or not the
\* event has a queryStringParameters map too.
C13_UrlFromRawQuery ==
    (/\ pair = "created"
     /\ detectApiGatewayVersion(event) = "v2"
     /\ ~Has(event.path)
     /\ Truthy(event.rawQueryString))
    => reqUrl = Str(event.rawPath.s \o <<"?">> \o event.rawQueryString.s)

-----------------------------------------------------------------------------
(* C19 *)

\* C19: an event with a top-level httpMethod and no requestContext.http is
\* format A to both guards (isAPIGatewayV1 true, isAPIGatewayV2 false), an
\* event with requestContext.http and no top-level httpMethod is format B to
\* both (false, true), and for null and undefined both return false and
\* neither throws.
C19_GuardsPartition ==
    guards # NoObject =>
        /\ (/\ event.kind = "object"
            /\ Has(event.httpMethod)
            /\ ~(event.requestContext.t = "obj" /\ Has(event.requestContext.http)))
           => guards = [v1 |-> "true", v2 |-> "false"]
        /\ (/\ event.kind = "object"
            /\ ~Has(event.httpMethod)
            /\ event.requestContext.t = "obj"
            /\ Has(event.requestContext.http))
           => guards = [v1 |-> "false", v2 |-> "true"]
        /\ event.kind \in {"null", "undefined"}
           => guards = [v1 |-> "false", v2 |-> "false"]

\* The guards were asked about null.
C19_Witness ==
    /\ event.kind = "null"
    /\ guards = [v1 |-> "false", v2 |-> "false"]

-----------------------------------------------------------------------------
(* util.ts: getSubdomains and the module-wide AppSubdomainLength *)

Min(a, b) == IF a < b THEN a ELSE b

getSubdomains_alwaysAdds(len, hostname, offset) ==
    LET off == offset + len
        parts == Split(hostname, <<".">>)
    IN IF Len(parts) <= off THEN <<>>
       ELSE SubSeq(parts, 1, Min(Len(parts), Len(parts) - off))

\* getSubdomains(hostname, offset) while AppSubdomainLength is len;
\* slice(0, end) stops at the end of the array.
getSubdomains(len, hostname, offset) ==
    LET off == IF len > 0 THEN offset + len ELSE offset
        parts == Split(hostname, <<".">>)
    IN IF Len(parts) <= off THEN <<>>
       ELSE SubSeq(parts, 1, Min(Len(parts), Len(parts) - off))

-----------------------------------------------------------------------------
(* SpecUtil: setAppSubdomainLength and getSubdomains are called in any     *)
(* order with any arguments.                                               *)

Hostnames == SeqsUpTo({"a", "."}, MaxHostLen)
Offsets == {-1, 0, 1, 2}
SubdomainLengths == {-1, 0, 1, 2, 3}

InitUtil ==
    /\ event = SinkEvent
    /\ EventsIdle
    /\ EndpointIdle
    /\ ResponseIdle
    /\ AuxIdle

\* setAppSubdomainLength(length)
SetAppSubdomainLength ==
    /\ \E length \in SubdomainLengths : appSubdomainLength' = length
    /\ UNCHANGED <<extVars, evVars, epVars, resVars, guards, subCall, tmVars, callVars>>

\* getSubdomains(hostname, offset)
GetSubdomains ==
    /\ \E hostname \in Hostnames, offset \in Offsets :
         subCall' = [hostname |-> hostname, offset |-> offset,
                     len |-> appSubdomainLength,
                     result |-> getSubdomains(appSubdomainLength, hostname,
                                              offset)]
    /\ UNCHANGED <<extVars, evVars, epVars, resVars, guards, appSubdomainLength,
                   tmVars, callVars>>

NextUtil == SetAppSubdomainLength \/ GetSubdomains

SpecUtil == InitUtil /\ [][NextUtil]_vars

-----------------------------------------------------------------------------
(* C20 *)

\* labels are the dot-separated labels of hostname, in order.
IsLabelsOf(labels, hostname) ==
    /\ labels # <<>>
    /\ Join(labels, <<".">>) = hostname
    /\ \A i \in 1..Len(labels) : ~Contains(labels[i], <<".">>)

\* C20: getSubdomains(hostname, offset) returns the labels of hostname, in
\* order, without the last offset + L of them, L being the module's
\* subdomain length when it is positive and 0 otherwise; it returns the
\* empty list when hostname has no more than offset + L labels.
C20_SubdomainsDropSuffix ==
    subCall # NoObject =>
        LET labels == Split(subCall.hostname, <<".">>)
            n == subCall.offset + (IF subCall.len > 0 THEN subCall.len ELSE 0)
            kept == IF Len(labels) <= n THEN 0
                    ELSE IF n < 0 THEN Len(labels) ELSE Len(labels) - n
        IN /\ IsLabelsOf(labels, subCall.hostname)
           /\ Len(subCall.result) = kept
           /\ \A i \in 1..kept : subCall.result[i] = labels[i]

\* After setAppSubdomainLength(-1), getSubdomains("aa.a.", 2) gives "aa".
C20_Witness ==
    /\ subCall # NoObject
    /\ subCall.len = -1
    /\ subCall.offset = 2
    /\ subCall.hostname = <<"a", "a", ".", "a", ".">>
    /\ subCall.result = <<<<"a", "a">>>>

-----------------------------------------------------------------------------
(* SpecEndpoint: one request (a LambdaIncomingMessage, which is an         *)
(* EventWrapperSocket) is read, written, given timeouts and destroyed, and *)
(* its timers fire, in any order.                                          *)

EndpointEvent ==
    [kind |-> "object", version |-> Absent, httpMethod |-> POST,
     path |-> PathX, routeKey |-> Absent, rawPath |-> Absent,
     requestContext |-> RCv1, queryStringParameters |-> Absent,
     rawQueryString |-> Absent, body |-> Str(<<97, 98>>)]

EndpointChunks == {Text(<<111, 107>>, "utf8")}

\* new LambdaIncomingMessage(event)
InitEndpoint ==
    /\ event = EndpointEvent
    /\ validated = "idle"
    /\ pair = "none"
    /\ reqUrl = _parseUrl(event)
    /\ ep = EventWrapperSocket(constructorBody(event))
    /\ pushed = <<>>
    /\ eofCount = 0
    /\ readCalls = 0
    /\ epLog = <<>>
    /\ ResponseIdle
    /\ AuxIdle

EpState ==
    [ep |-> ep, timers |-> timers, epTimeout |-> epTimeout,
     timerLog |-> timerLog]

SetEpState(st) ==
    /\ ep' = st.ep
    /\ timers' = st.timers
    /\ epTimeout' = st.epTimeout
    /\ timerLog' = st.timerLog

\* setTimeout(timeout, callback)
SetTimeout ==
    /\ calls < MaxCalls
    /\ \E timeout \in Durations, callback \in Callbacks :
         /\ timeout > 0 => Len(timers) < MaxTimers
         /\ LET r == EventWrapperSocket_setTimeout(EpState, timeout, callback) IN
            /\ SetEpState(r.st)
            /\ raised' = [op |-> "setTimeout", error |-> r.error,
                          caught |-> "none",
                          returns |-> IF r.error = NoError THEN "this"
                                      ELSE "none"]
    /\ calls' = calls + 1
    /\ UNCHANGED <<extVars, evVars, pushed, eofCount, readCalls, epLog, resVars,
                   utilVars, destroyDepth, destroyCalls, resSocket>>

\* The event loop runs a scheduled timer.
Fire ==
    /\ \E i \in 1..Len(timers) :
         /\ timers[i].node = "armed"
         /\ timers[i].cb = "rearms" => Len(timers) < MaxTimers
         /\ SetEpState(BasicTimeout_callback(EpState, i))
    /\ UNCHANGED <<extVars, evVars, pushed, eofCount, readCalls, epLog, resVars,
                   utilVars, callVars>>

\* _read(size)
EpRead ==
    /\ eofCount = 0
    /\ \E size \in 1..MaxReadSize :
         LET r == _read(ep, size) IN
         /\ ep' = r.ep
         /\ pushed' = pushed \o r.push
         /\ eofCount' = IF r.eof THEN eofCount + 1 ELSE eofCount
    /\ readCalls' = readCalls + 1
    /\ UNCHANGED <<evVars, epLog, resVars, auxVars>>

\* write(chunk), which calls _write(chunk)
EpWrite ==
    /\ Len(epLog) < MaxSinkWrites
    /\ \E chunk \in EndpointChunks :
         /\ SetEpState(_write(EpState, WritableDecode(chunk)))
         /\ epLog' = Append(epLog, chunk)
    /\ UNCHANGED <<extVars, evVars, pushed, eofCount, readCalls, resVars, utilVars,
                   callVars>>

\* connect(port, host, connectionListener)
Connect ==
    /\ calls < MaxCalls
    /\ LET r == connect(EpState) IN
         /\ SetEpState(r.st)
         /\ raised' = [op |-> "connect", error |-> r.error, caught |-> "none",
                       returns |-> "none"]
    /\ calls' = calls + 1
    /\ UNCHANGED <<extVars, evVars, pushed, eofCount, readCalls, epLog, resVars,
                   utilVars, destroyDepth, destroyCalls, resSocket>>

\* destroySoon()
DestroySoon ==
    /\ calls < MaxCalls
    /\ LET r == destroySoon(EpState) IN
         /\ SetEpState(r.st)
         /\ raised' = [op |-> "destroySoon", error |-> r.error,
                       caught |-> "none", returns |-> "none"]
    /\ calls' = calls + 1
    /\ UNCHANGED <<extVars, evVars, pushed, eofCount, readCalls, epLog, resVars,
                   utilVars, destroyDepth, destroyCalls, resSocket>>

\* destroy(error), called by the application
Destroy ==
    /\ calls < MaxCalls
    /\ LET r == LambdaIncomingMessage_destroy(0) IN
         /\ raised' = [op |-> "destroy", error |-> r.error, caught |-> "none",
                       returns |-> IF r.error = NoError THEN "this"
                                   ELSE "none"]
         /\ destroyDepth' = r.depth
         /\ destroyCalls' = r.endpoint
    /\ calls' = calls + 1
    /\ UNCHANGED <<extVars, evVars, epVars, resVars, utilVars, tmVars, resSocket>>

\* request.setTimeout(msecs, callback), the override of LambdaIncomingMessage
RequestSetTimeout ==
    /\ calls < MaxCalls
    /\ \E msecs \in Durations, callback \in Callbacks :
         /\ msecs > 0 => Len(timers) < MaxTimers
         /\ \E r \in {LambdaIncomingMessage_setTimeout(EpState, msecs,
                                                       callback, 0)} :
              /\ SetEpState(r.st)
              /\ raised' = [op |-> "request.setTimeout", error |-> r.error,
                            caught |-> "none",
                            returns |-> IF r.error = NoError THEN "this"
                                        ELSE "none"]
    /\ calls' = calls + 1
    /\ UNCHANGED <<extVars, evVars, pushed, eofCount, readCalls, epLog, resVars,
                   utilVars, destroyDepth, destroyCalls, resSocket>>

NextEndpoint ==
    \/ SetTimeout
    \/ Fire
    \/ EpRead
    \/ EpWrite
    \/ Connect
    \/ DestroySoon
    \/ Destroy

SpecEndpoint == InitEndpoint /\ [][NextEndpoint]_vars

-----------------------------------------------------------------------------
(* C14 *)

\* C14: once setTimeout(n), n > 0, was followed by setTimeout(0) before the
\* timer it set fired, no timeout signal is emitted and no callback is
\* invoked for as long as no new non-zero setTimeout is issued.
C14_NoSignalAfterCancel ==
    \A j \in 1..Len(timerLog) :
        (/\ timerLog[j].e = "zero"
         /\ \E i \in 1..(j - 1) :
               /\ timerLog[i].e = "set"
               /\ \A k \in (i + 1)..(j - 1) :
                     ~(timerLog[k].e = "timeout"
                       /\ timerLog[k].id = timerLog[i].id))
        => \A m \in (j + 1)..Len(timerLog) :
              (\A k \in (j + 1)..(m - 1) :
                  timerLog[k].e \notin {"set", "setfail"})
              => timerLog[m].e \notin {"timeout", "cb"}

-----------------------------------------------------------------------------
(* C15 *)

\* C15: a timer that fired did so once, emitted the timeout signal before
\* its callback was invoked, invoked the callback if one was supplied, and
\* is no longer the endpoint's timer.
C15_FiresOnceThenClears ==
    \A i \in 1..Len(timers) :
        timers[i].fires > 0 =>
            /\ timers[i].fires = 1
            /\ timers[i].node # "armed"
            /\ epTimeout # i
            /\ \E j \in 1..Len(timerLog) :
                  /\ timerLog[j] = LogEntry("timeout", i)
                  /\ timers[i].cb # "none" =>
                        /\ j < Len(timerLog)
                        /\ timerLog[j + 1] = LogEntry("cb", i)

-----------------------------------------------------------------------------
(* C17 *)

\* C17: a call of connect or destroySoon raises 'Method not implemented.'
\* and leaves the read offset, the write accumulator, the byte counters and
\* the timers as they were.
C17_NotImplementedKeepsState ==
    [][(calls' = calls + 1 /\ raised'.op \in {"connect", "destroySoon"})
         => /\ raised'.error = NotImplemented
            /\ ep' = ep
            /\ timers' = timers
            /\ epTimeout' = epTimeout]_vars

\* connect was called on an endpoint that was read, written and has a timer
\* pending.
C17_Witness ==
    /\ raised.op = "connect"
    /\ raised.error = NotImplemented
    /\ ep.readOffset > 0
    /\ ep.acc # <<>>
    /\ epTimeout # 0
    /\ timers[epTimeout].node = "armed"

-----------------------------------------------------------------------------
(* C18 *)

\* C18: destroy(error) on the request returns without an error after one
\* destroy of the underlying endpoint and never runs inside itself.
C18_DestroyDelegatesOnce ==
    raised.op = "destroy" =>
        /\ raised.error = NoError
        /\ destroyCalls = 1
        /\ destroyDepth = 1

-----------------------------------------------------------------------------
(* SpecEnd: a response made for a REST event is written and ended any      *)
(* number of times, with any chunk, while its socket may be detached or    *)
(* destroyed.                                                              *)

EndChunks == {NoChunk, Text(<<111, 107>>, "utf8"), BadChunk}

\* createRequestResponsePair(event) inside appify(event)
InitEnd ==
    /\ event = EventA
    /\ validated = validateApiGatewayEvent(event)
    /\ pair = "created"
    /\ reqUrl = _parseUrl(event)
    /\ ep = EventWrapperSocket(constructorBody(event))
    /\ pushed = <<>>
    /\ eofCount = 0
    /\ readCalls = 0
    /\ epLog = <<>>
    /\ appified = "ready"
    /\ listeners = {"finish", "error"}
    /\ promise = "pending"
    /\ result = NoObject
    /\ res = LambdaResponse(event)
    /\ writer = EventResponseBodyWriter
    /\ writerLog = <<>>
    /\ resLog = <<>>
    /\ ticks = <<>>
    /\ finishCount = 0
    /\ errorCount = 0
    /\ AuxIdle

\* response.write(chunk, encoding) while the socket is attached
WriteAttached ==
    /\ resSocket = "attached"
    /\ Write

\* response.detachSocket(socket)
DetachSocket ==
    /\ resSocket = "attached"
    /\ resSocket' = "detached"
    /\ UNCHANGED <<extVars, evVars, epVars, resVars, utilVars, tmVars, raised,
                   destroyDepth, destroyCalls, calls>>

\* response.socket.destroy()
DestroySocket ==
    /\ resSocket = "attached"
    /\ resSocket' = "destroyed"
    /\ UNCHANGED <<extVars, evVars, epVars, resVars, utilVars, tmVars, raised,
                   destroyDepth, destroyCalls, calls>>

\* response.end(chunk, encoding, cb)
EndCall ==
    /\ calls < MaxCalls
    /\ \E chunk \in EndChunks :
         /\ (res.finished /\ chunk # NoChunk) =>
               errorCount + Queued("error") < MaxErrors
         /\ LET e == LambdaResponse_end_try(res, writer, resSocket, chunk) IN
            /\ res' = e.res
            /\ writer' = e.writer
            /\ writerLog' = IF writer.ended THEN writerLog
                            ELSE writerLog \o e.out
            /\ resLog' = IF e.res.finished /\ ~res.finished /\ ChunkGiven(chunk)
                         THEN Append(resLog, chunk) ELSE resLog
            /\ ticks' = ticks \o e.ticks
            /\ raised' = [op |-> "end", error |-> e.thrown,
                          caught |-> e.caught, returns |-> e.returns]
    /\ calls' = calls + 1
    /\ UNCHANGED <<extVars, evVars, epVars, appified, listeners, promise, result,
                   finishCount, errorCount, utilVars, tmVars, destroyDepth,
                   destroyCalls, resSocket>>

NextEnd ==
    \/ WriteAttached
    \/ DetachSocket
    \/ DestroySocket
    \/ EndCall
    \/ RunTick

SpecEnd == InitEnd /\ [][NextEnd]_vars

-----------------------------------------------------------------------------
(* C16 *)

\* C16: end() on the response never throws to its caller, whether it is the
\* first call or a repeated one and whether the socket is attached, detached
\* or destroyed: what the inherited end or closing the socket raises is
\* caught, and end() returns the response.
C16_EndNeverThrows ==
    raised.op = "end" =>
        /\ raised.error = NoError
        /\ raised.returns = "this"

\* A repeated end() on a response whose socket was detached: closing the
\* socket raised TypeError, which was caught.
C16_Witness ==
    /\ raised.op = "end"
    /\ raised.caught = "TypeError"
    /\ resSocket = "detached"
    /\ calls >= 2
    /\ res.finished

-----------------------------------------------------------------------------
(* util.ts: getClientIP.  The events it is given carry what it looks at:   *)
(* the httpMethod key, the headers (absent, null, or an object with the    *)
(* two spellings of x-forwarded-for) and the request context with its      *)
(* identity.sourceIp and http.sourceIp.                                    *)

IpF == Str(<<"1", "0", ".", "1">>)
IpX == Str(<<"1", "0", ".", "2">>)
IpA == Str(<<"1", "0", ".", "3">>)
IpB == Str(<<"1", "0", ".", "4">>)
DefaultIP == Str(<<"1", "2", "7", ".", "0", ".", "0", ".", "1">>)

\* a || b
Or(a, b) == IF Truthy(a) THEN a ELSE b

\* object?.key, object being absent or an object
Chain(object, key) == IF object.t = "obj" THEN object[key] ELSE Absent

\* event.headers || {}
headersOrEmpty(e) ==
    IF e.headers.t = "obj" THEN e.headers
    ELSE [t |-> "obj", lower |-> Absent, upper |-> Absent]

getClientIP_upperFirst(e) ==
    LET headers == headersOrEmpty(e) IN
    IF isAPIGatewayV1(e) = "true"
    THEN Or(headers.upper, Or(headers.lower,
            Or(Chain(Chain(e.requestContext, "identity"), "sourceIp"),
               DefaultIP)))
    ELSE IF isAPIGatewayV2(e) = "true"
    THEN Or(headers.upper, Or(headers.lower,
            Or(Chain(Chain(e.requestContext, "http"), "sourceIp"),
               DefaultIP)))
    ELSE DefaultIP

\* getClientIP(event)
getClientIP(e) ==
    LET headers == headersOrEmpty(e) IN
    IF isAPIGatewayV1(e) = "true"
    THEN Or(headers.lower, Or(headers.upper,
            Or(Chain(Chain(e.requestContext, "identity"), "sourceIp"),
               DefaultIP)))
    ELSE IF isAPIGatewayV2(e) = "true"
    THEN Or(headers.lower, Or(headers.upper,
            Or(Chain(Chain(e.requestContext, "http"), "sourceIp"),
               DefaultIP)))
    ELSE DefaultIP

-----------------------------------------------------------------------------
(* SpecClientIP: getClientIP is called on an event.                        *)

IpHeaders ==
    {Absent, Null}
    \cup [t : {"obj"}, lower : {Absent, Str(<<>>), IpF},
          upper : {Absent, Str(<<>>), IpX}]

IpIdentities == {Absent} \cup [t : {"obj"}, sourceIp : {Absent, Str(<<>>), IpA}]
IpHttps == {Absent} \cup [t : {"obj"}, sourceIp : {Absent, Str(<<>>), IpB}]

IpRequestContexts ==
    {Absent} \cup [t : {"obj"}, identity : IpIdentities, http : IpHttps]

IpEvents ==
    [kind : {"object"}, httpMethod : {Absent, POST}, headers : IpHeaders,
     requestContext : IpRequestContexts]

InitClientIP ==
    /\ event = SinkEvent
    /\ EventsIdle
    /\ EndpointIdle
    /\ ResponseIdle
    /\ BaseIdle
    /\ PairsIdle
    /\ OptionsIdle
    /\ RequestIdle
    /\ ipCall \in [event : IpEvents, called : {FALSE}, result : {Absent}]

\* getClientIP(event)
GetClientIP ==
    /\ ~ipCall.called
    /\ ipCall' = [ipCall EXCEPT !.called = TRUE,
                                !.result = getClientIP(ipCall.event)]
    /\ UNCHANGED <<evVars, epVars, resVars, utilVars, tmVars, callVars, pairs,
                   pairLog, options, elapsed, access, transport>>

NextClientIP == GetClientIP

SpecClientIP == InitClientIP /\ [][NextClientIP]_vars

-----------------------------------------------------------------------------
(* C21 *)

\* The candidates of an event in priority order: the two spellings of the
\* forwarded-for header, then the source IP of its format.
IpCandidates(e) ==
    <<Chain(e.headers, "lower"), Chain(e.headers, "upper"),
      IF Has(e.httpMethod)
      THEN Chain(Chain(e.requestContext, "identity"), "sourceIp")
      ELSE Chain(Chain(e.requestContext, "http"), "sourceIp")>>

IsFormatAorB(e) ==
    Has(e.httpMethod) \/ Has(Chain(e.requestContext, "http"))

-----------------------------------------------------------------------------
(* index.ts: createRequestResponsePair.  A pair is a record of the event,  *)
(* the request's endpoint with its timers, the response, its writer, the   *)
(* callbacks the response queued and the result it produced.  The two      *)
(* accumulators are arrays, which an object holds by reference: in the     *)
(* state a pair holds the index of each array in pairs.arrays.             *)

\* private _writeBodyAccumulator: Buffer[] = [], evaluated by a constructor
newAccumulator_reused(arrays) ==
    IF Len(arrays) >= 2
    THEN [arrays |-> arrays, ref |-> 1]
    ELSE [arrays |-> Append(arrays, <<>>), ref |-> Len(arrays) + 1]

newAccumulator(arrays) ==
    [arrays |-> Append(arrays, <<>>), ref |-> Len(arrays) + 1]

\* The pair made of an endpoint whose accumulator is epAcc and a writer
\* whose accumulator is wAcc.
PairOf(e, epAcc, wAcc) ==
    [event |-> e,
     ep |-> [EventWrapperSocket(constructorBody(e)) EXCEPT !.acc = epAcc],
     timers |-> <<>>, epTimeout |-> 0, timerLog |-> <<>>,
     res |-> LambdaResponse(e),
     writer |-> [EventResponseBodyWriter EXCEPT !.acc = wAcc],
     ticks |-> <<>>, result |-> NoObject]

\* createRequestResponsePair(event)
pairWith(e, a1, a2) ==
    [pair |-> PairOf(e, a1.ref, a2.ref), arrays |-> a2.arrays]

secondAccumulator(e, a1) == pairWith(e, a1, newAccumulator(a1.arrays))

createRequestResponsePair(e, arrays) ==
    secondAccumulator(e, newAccumulator(arrays))

\* A pair as its objects see it: each accumulator is the array it refers to.
Deref(q, arrays) ==
    [q EXCEPT !.ep.acc = arrays[@], !.writer.acc = arrays[@]]

\* The operations on a pair: _read(2), write('ok') on the request's socket,
\* setTimeout(5, cb) and setTimeout(0), a timer firing, setHeader,
\* write('ok') and end() on the response, and a queued callback running.
PairOps ==
    {[k |-> "read", n |-> 2], [k |-> "epWrite", n |-> 0],
     [k |-> "setTimeout", n |-> 5], [k |-> "setTimeout", n |-> 0],
     [k |-> "fire", n |-> 0], [k |-> "setHeader", n |-> 0],
     [k |-> "write", n |-> 0], [k |-> "end", n |-> 0],
     [k |-> "tick", n |-> 0]}

PairChunk == Text(<<111, 107>>, "utf8")

ArmedTimers(q) == {i \in 1..Len(q.timers) : q.timers[i].node = "armed"}

PairEnabled(q, op) ==
    CASE op.k = "fire" -> ArmedTimers(q) # {}
      [] op.k = "setHeader" -> ~q.res.header
      [] op.k = "write" -> ~q.res.finished
      [] op.k = "tick" -> q.ticks # <<>>
      [] OTHER -> TRUE

StOf(q) ==
    [ep |-> q.ep, timers |-> q.timers, epTimeout |-> q.epTimeout,
     timerLog |-> q.timerLog]

WithSt(q, st) ==
    [q EXCEPT !.ep = st.ep, !.timers = st.timers, !.epTimeout = st.epTimeout,
              !.timerLog = st.timerLog]

WithResponse(q, w) ==
    [q EXCEPT !.res = w.res, !.writer = socketWrites(q.writer, w.out),
              !.ticks = @ \o w.ticks]

WithEnd(q, e) ==
    [q EXCEPT !.res = e.res, !.writer = e.writer, !.ticks = @ \o e.ticks]

\* One operation on a pair whose accumulators are given by value
PairStep(q, op) ==
    CASE op.k = "read" -> [q EXCEPT !.ep = _read(q.ep, op.n).ep]
      [] op.k = "epWrite" ->
            WithSt(q, _write(StOf(q), WritableDecode(PairChunk)))
      [] op.k = "setTimeout" ->
            WithSt(q, EventWrapperSocket_setTimeout(StOf(q), op.n,
                                                    "returns").st)
      [] op.k = "fire" ->
            WithSt(q, BasicTimeout_callback(StOf(q),
                         CHOOSE i \in ArmedTimers(q) :
                            \A j \in ArmedTimers(q) : i <= j))
      [] op.k = "setHeader" ->
            [q EXCEPT !.res.headers["content-type"] = Str(TextPlain)]
      [] op.k = "write" -> WithResponse(q, ServerResponse_write(q.res, PairChunk))
      [] op.k = "end" -> WithEnd(q, LambdaResponse_end(q.res, q.writer, NoChunk))
      [] OTHER ->
            [q EXCEPT !.ticks = Tail(@),
                      !.result = IF Head(q.ticks) = "finish"
                                 THEN toLambdaResponse(q.event, q.res, q.writer)
                                 ELSE @]

\* The pair and the arrays after the pair's objects ran the operation: what
\* they did to their accumulators happened to the arrays these refer to.
Store(q, arrays, n) ==
    [pair |-> [n EXCEPT !.ep.acc = q.ep.acc, !.writer.acc = q.writer.acc],
     arrays |-> [[arrays EXCEPT ![q.ep.acc] = n.ep.acc]
                    EXCEPT ![q.writer.acc] = n.writer.acc]]

-----------------------------------------------------------------------------
(* SpecPairs: two pairs are made, from the same event or from two, and     *)
(* operated on in any interleaving.                                        *)

PairEvents == {[EventA EXCEPT !.body = Str(<<97, 98, 99>>)], EventB}

InitPairs ==
    /\ event = SinkEvent
    /\ EventsIdle
    /\ EndpointIdle
    /\ ResponseIdle
    /\ BaseIdle
    /\ ipCall = NoObject
    /\ PairsIdle
    /\ OptionsIdle
    /\ RequestIdle

\* createRequestResponsePair(event)
NewPair ==
    /\ Len(pairs.p) < 2
    /\ \E e \in PairEvents :
         \E c \in {createRequestResponsePair(e, pairs.arrays)} :
            pairs' = [p |-> Append(pairs.p, c.pair), arrays |-> c.arrays]
    /\ pairLog' = Append(pairLog, <<>>)
    /\ UNCHANGED <<evVars, epVars, resVars, utilVars, tmVars, callVars, ipCall,
                   options, elapsed, access, transport>>

\* One operation on one of the pairs
PairOp ==
    /\ \E i \in 1..Len(pairs.p), op \in PairOps :
         /\ Len(pairLog[i]) < MaxPairOps
         /\ \E q \in {Deref(pairs.p[i], pairs.arrays)} :
              /\ PairEnabled(q, op)
              /\ \E s \in {Store(pairs.p[i], pairs.arrays, PairStep(q, op))} :
                   pairs' = [p |-> [pairs.p EXCEPT ![i] = s.pair],
                             arrays |-> s.arrays]
         /\ pairLog' = [pairLog EXCEPT ![i] = Append(@, op)]
    /\ UNCHANGED <<evVars, epVars, resVars, utilVars, tmVars, callVars, ipCall,
                   options, elapsed, access, transport>>

NextPairs == NewPair \/ PairOp

SpecPairs == InitPairs /\ [][NextPairs]_vars

-----------------------------------------------------------------------------
(* C22 *)

\* A pair made from e on its own, after the operations of log
RECURSIVE Replay(_, _)
Replay(e, log) ==
    IF log = <<>> THEN PairOf(e, <<>>, <<>>)
    ELSE PairStep(Replay(e, SubSeq(log, 1, Len(log) - 1)), log[Len(log)])

\* C22: whatever was done to the other pair, each pair's read offset, write
\* accumulators, timers, response and result are what the pair's own
\* operations make of a pair created alone from its event.
C22_PairsIsolated ==
    \A i \in 1..Len(pairs.p) :
        Deref(pairs.p[i], pairs.arrays) = Replay(pairs.p[i].event, pairLog[i])

\* Two pairs of the same event: the first was written to on both sides,
\* the second was read and has a timer pending.
C22_Witness ==
    /\ Len(pairs.p) = 2
    /\ pairs.p[1].event = pairs.p[2].event
    /\ pairs.arrays[pairs.p[1].ep.acc] # <<>>
    /\ pairs.arrays[pairs.p[1].writer.acc] # <<>>
    /\ pairs.p[2].ep.readOffset > 0
    /\ ArmedTimers(pairs.p[2]) # {}
    /\ pairs.arrays[pairs.p[2].ep.acc] = <<>>
    /\ pairs.arrays[pairs.p[2].writer.acc] = <<>>

-----------------------------------------------------------------------------
(* SpecTimeout: appify is handed options with a timeout, and the           *)
(* middleware sets the status, sets headers and writes, but never ends     *)
(* the response, while time passes.                                         *)

OptionTimeouts == {0, 1}

\* The timers that are pending once appify(event, context, opts) returned:
\* the body of appify reads no field of opts and arms no timer.
appifyTimers(opts) == {}

InitTimeout ==
    /\ event \in {EventA, EventB}
    /\ EventsIdle
    /\ EndpointIdle
    /\ ResponseIdle
    /\ BaseIdle
    /\ ipCall = NoObject
    /\ PairsIdle
    /\ options \in [timeout : OptionTimeouts]
    /\ elapsed = 0
    /\ RequestIdle

\* One millisecond passes: the timers that are due run.
Elapse ==
    /\ appified = "ready"
    /\ elapsed < MaxElapsed
    /\ elapsed' = elapsed + 1
    /\ promise' = IF /\ promise = "pending"
                     /\ \E t \in appifyTimers(options) : t <= elapsed + 1
                  THEN "rejected" ELSE promise
    /\ UNCHANGED <<evVars, epVars, appified, listeners, result, res, writer,
                   writerLog, resLog, ticks, finishCount, errorCount, utilVars,
                   tmVars, callVars, ipCall, pairs, pairLog, options, access,
                   transport>>

\* No callback is ever queued: the response is neither ended nor written to
\* after its end, which is what queues 'finish' and 'error'.
NextTimeout == Appify \/ SetStatus \/ SetHeader \/ Write \/ Elapse

SpecTimeout == InitTimeout /\ [][NextTimeout]_vars /\ WF_vars(NextTimeout)

-----------------------------------------------------------------------------
(* C23 *)

\* C23: when appify was given options.timeout = T > 0 and the middleware
\* never ends the response, the result promise is settled eventually.
C23_TimeoutSettles ==
    (appified = "ready" /\ options.timeout > 0) ~> (promise # "pending")

-----------------------------------------------------------------------------
(* C24 *)

\* C24: once end() has been called on the response, no later step (a
\* write(), a further end() with or without a chunk, a queued callback)
\* changes the body the writer has accumulated.
C24_NoWriteAfterEnd ==
    [][calls > 0 => body(writer)' = body(writer)]_vars

-----------------------------------------------------------------------------
(* C25 *)

\* C25: after any sequence of setTimeout calls, re-entrant ones from a
\* firing timer's callback included, at most one timer is pending on the
\* endpoint, and it is the timer the endpoint refers to.
C25_OnePendingTimer ==
    \A i \in 1..Len(timers) : timers[i].node = "armed" => epTimeout = i

-----------------------------------------------------------------------------
(* C26 *)

-----------------------------------------------------------------------------
(* SpecAccumulate: an endpoint with a body and a response writer are       *)
(* written to, and between the writes the endpoint is read, given and      *)
(* taken timers, also through the request's own setTimeout, and called     *)
(* through its methods that do nothing; the accumulated bytes are read     *)
(* from both.                                                               *)

SocketCalls ==
    {"setNoDelay", "setKeepAlive", "ref", "unref", "address",
     "_writeBufferContents"}

AccumulateChunks == {Text(<<111, 107>>, "utf8"), Bytes(<<200, 10>>)}

\* setNoDelay, setKeepAlive, unref, ref, address and _writeBufferContents:
\* the endpoint after the call and the kind of value returned
EventWrapperSocket_call_drains(e, op) ==
    CASE op \in {"setNoDelay", "setKeepAlive", "ref", "unref"} ->
            [ep |-> e, returns |-> "this"]
      [] op = "address" -> [ep |-> e, returns |-> "address"]
      [] OTHER -> [ep |-> [e EXCEPT !.acc = <<>>], returns |-> "buffer"]

EventWrapperSocket_call(e, op) ==
    CASE op \in {"setNoDelay", "setKeepAlive", "ref", "unref"} ->
            [ep |-> e, returns |-> "this"]
      [] op = "address" -> [ep |-> e, returns |-> "address"]
      [] OTHER -> [ep |-> e, returns |-> "buffer"]

\* get body() of the writer
EventResponseBodyWriter_body(w) == [writer |-> w, returns |-> "buffer"]

InitAccumulate ==
    /\ event = EndpointEvent
    /\ validated = "idle"
    /\ pair = "none"
    /\ reqUrl = _parseUrl(event)
    /\ ep = EventWrapperSocket(constructorBody(event))
    /\ pushed = <<>>
    /\ eofCount = 0
    /\ readCalls = 0
    /\ epLog = <<>>
    /\ appified = "idle"
    /\ listeners = {}
    /\ promise = "none"
    /\ result = NoObject
    /\ res = NoObject
    /\ writer = EventResponseBodyWriter
    /\ writerLog = <<>>
    /\ resLog = <<>>
    /\ ticks = <<>>
    /\ finishCount = 0
    /\ errorCount = 0
    /\ AuxIdle

\* One of the methods of the endpoint that do nothing, or a read of what it
\* accumulated
SocketCall ==
    /\ calls < MaxCalls
    /\ \E op \in SocketCalls :
         \E r \in {EventWrapperSocket_call(ep, op)} :
            /\ ep' = r.ep
            /\ raised' = [op |-> op, error |-> NoError, caught |-> "none",
                          returns |-> r.returns]
    /\ calls' = calls + 1
    /\ UNCHANGED <<extVars, evVars, pushed, eofCount, readCalls, epLog, resVars,
                   utilVars, tmVars, destroyDepth, destroyCalls, resSocket>>

\* writer.body
BodyGet ==
    /\ calls < MaxCalls
    /\ \E r \in {EventResponseBodyWriter_body(writer)} :
         /\ writer' = r.writer
         /\ raised' = [op |-> "body", error |-> NoError, caught |-> "none",
                       returns |-> r.returns]
    /\ calls' = calls + 1
    /\ UNCHANGED <<extVars, evVars, epVars, appified, listeners, promise, result,
                   res, writerLog, resLog, ticks, finishCount, errorCount,
                   utilVars, tmVars, destroyDepth, destroyCalls, resSocket>>

\* write(chunk) on the writer
AccumulateWrite ==
    /\ Len(writerLog) < MaxSinkWrites
    /\ \E chunk \in AccumulateChunks :
         /\ writer' = EventResponseBodyWriter_write(writer,
                                                    WritableDecode(chunk))
         /\ writerLog' = Append(writerLog, chunk)
    /\ UNCHANGED <<auxVars, evVars, epVars, appified, listeners, promise, result,
                   res, resLog, ticks, finishCount, errorCount>>

\* setTimeout(timeout, callback) on an endpoint that was given no timer yet
FirstSetTimeout ==
    /\ timers = <<>>
    /\ SetTimeout

NextAccumulate ==
    \/ EpWrite
    \/ AccumulateWrite
    \/ EpRead
    \/ FirstSetTimeout
    \/ RequestSetTimeout
    \/ SocketCall
    \/ BodyGet

SpecAccumulate == InitAccumulate /\ [][NextAccumulate]_vars

-----------------------------------------------------------------------------
(* C27 *)

IsPrefixOf(a, b) == Len(a) <= Len(b) /\ a = SubSeq(b, 1, Len(a))

\* C27: in every step the bytes each sink accumulated before are a prefix
\* of the bytes it holds after; and a step that is not a write to the sink
\* (a read, setTimeout, setNoDelay, setKeepAlive, ref, unref, address, a
\* read of the accumulated bytes) leaves the sink's accumulator as it was.
C27_AccumulatorAppendOnly ==
    [][/\ IsPrefixOf(_writeBufferContents(ep), _writeBufferContents(ep'))
       /\ IsPrefixOf(body(writer), body(writer'))
       /\ epLog' = epLog => ep'.acc = ep.acc
       /\ writerLog' = writerLog => writer'.acc = writer.acc]_vars

\* Both sinks were written to, and afterwards the endpoint's accumulated
\* bytes were read.
C27_Witness ==
    /\ ep.acc # <<>>
    /\ writer.acc # <<>>
    /\ raised.op = "_writeBufferContents"

-----------------------------------------------------------------------------
(* C28 *)

\* C28: for both sinks bytesWritten is the number of bytes accumulated,
\* whether the chunks arrived as bytes or as text in some encoding.
C28_BytesWrittenIsLength ==
    /\ ep.bytesWritten = Len(_writeBufferContents(ep))
    /\ writer.bytesWritten = Len(body(writer))

-----------------------------------------------------------------------------
(* C29 *)

\* C29: when setTimeout was called with a negative duration and rejected
\* with 'Timeout must be greater than 0', no timer is pending on the
\* endpoint afterwards.
C29_RejectedLeavesNoTimer ==
    (raised.op = "setTimeout" /\ raised.error = TimeoutRangeError) =>
        \A i \in 1..Len(timers) : timers[i].node # "armed"

-----------------------------------------------------------------------------
(* C30 *)

\* C30: setTimeout(msecs, callback) on the request terminates: it hands the
\* call to the request's socket once and returns the request.
C30_RequestSetTimeoutReturns ==
    raised.op = "request.setTimeout" =>
        /\ raised.error = NoError
        /\ raised.returns = "this"

-----------------------------------------------------------------------------
(* lambda-incoming-message.ts: headers, headersDistinct, rawHeaders.  An   *)
(* object is the sequence of its entries in insertion order.               *)

Thrown == [t |-> "throw"]
Obj(m) == [t |-> "obj", m |-> m]

HeaderViews == {"headers", "headersDistinct", "rawHeaders"}

\* key.toLowerCase(), on keys over a, A, b, B and '-'
toLowerCase_asGiven(key) == key

toLowerCase(key) ==
    [i \in 1..Len(key) |->
        CASE key[i] = "A" -> "a" [] key[i] = "B" -> "b" [] OTHER -> key[i]]

\* object[key] = value
ObjectSet(object, key, value) ==
    IF \E i \in 1..Len(object) : object[i].k = key
    THEN [i \in 1..Len(object) |->
            IF object[i].k = key THEN [k |-> key, v |-> value] ELSE object[i]]
    ELSE Append(object, [k |-> key, v |-> value])

\* The statement inside if (value !== undefined) of each of the three getters
headerAssign(acc, entry, view) ==
    CASE view = "headers" -> ObjectSet(acc, toLowerCase(entry.k), entry.v)
      [] view = "headersDistinct" ->
            ObjectSet(acc, toLowerCase(entry.k), Arr(<<entry.v>>))
      [] OTHER -> acc \o <<Str(entry.k), entry.v>>

\* for (const [key, value] of Object.entries(this._event.headers))
RECURSIVE ForEntries(_, _, _)
ForEntries(entries, acc, view) ==
    IF entries = <<>> THEN acc
    ELSE ForEntries(Tail(entries),
                    IF Head(entries).v = Absent THEN acc
                    ELSE headerAssign(acc, Head(entries), view),
                    view)

\* get headers(), get headersDistinct(), get rawHeaders(): Object.entries
\* throws a TypeError on null.
headerViewOf(view, entries) ==
    IF view = "rawHeaders" THEN Arr(entries) ELSE Obj(entries)

LambdaIncomingMessage_headerView(e, view) ==
    IF ~Has(e.headers) THEN headerViewOf(view, <<>>)
    ELSE IF e.headers.t # "obj" THEN Thrown
    ELSE headerViewOf(view, ForEntries(e.headers.m, <<>>, view))

RequestProperties == HeaderViews \cup {"method", "url", "httpVersion"}

\* request[property], for a request made from e whose _url is url
LambdaIncomingMessage_get(e, url, property) ==
    CASE property \in HeaderViews -> LambdaIncomingMessage_headerView(e, property)
      [] property = "method" -> method(e)
      [] property = "url" -> url
      [] OTHER -> Str(httpVersion(e))

-----------------------------------------------------------------------------
(* SpecHeaders: a request is made from an event of either format whose     *)
(* headers are missing, null or a map; its properties are read, and the    *)
(* caller changes the header object it was handed first.                   *)

HeaderKeys == {<<"a">>, <<"A">>, <<"b">>}
HeaderValues1 == {Str(<<"1">>), Str(<<"2">>), Absent}

HeaderMaps ==
    {m \in SeqsUpTo([k : HeaderKeys, v : HeaderValues1], MaxHeaders) :
        \A i, j \in 1..Len(m) : m[i].k = m[j].k => i = j}

WithHeaders(e, h) ==
    [kind |-> e.kind, version |-> e.version, httpMethod |-> e.httpMethod,
     path |-> e.path, routeKey |-> e.routeKey, rawPath |-> e.rawPath,
     requestContext |-> e.requestContext,
     queryStringParameters |-> e.queryStringParameters,
     rawQueryString |-> e.rawQueryString, body |-> e.body, headers |-> h]

HeaderEvents ==
    {WithHeaders(e, h) : e \in {EventA, EventB},
                         h \in {Absent, Null} \cup {Obj(m) : m \in HeaderMaps}}

NoAccess == [op |-> "none", value |-> Absent, held |-> Absent]

\* new LambdaIncomingMessage(event)
InitHeaders ==
    /\ event \in HeaderEvents
    /\ validated = validateApiGatewayEvent(event)
    /\ pair = "none"
    /\ reqUrl = _parseUrl(event)
    /\ ep = EventWrapperSocket(constructorBody(event))
    /\ pushed = <<>>
    /\ eofCount = 0
    /\ readCalls = 0
    /\ epLog = <<>>
    /\ ResponseIdle
    /\ BaseIdle
    /\ ipCall = NoObject
    /\ PairsIdle
    /\ OptionsIdle
    /\ access = NoAccess
    /\ transport = NoObject

\* request[property]; the caller keeps the first header object it is given
Get ==
    /\ \E property \in RequestProperties :
         \E v \in {LambdaIncomingMessage_get(event, reqUrl, property)} :
            access' = [op |-> property, value |-> v,
                       held |-> IF access.held = Absent
                                   /\ property \in HeaderViews /\ v # Thrown
                                THEN v ELSE access.held]
    /\ UNCHANGED <<evVars, epVars, resVars, utilVars, tmVars, callVars, ipCall,
                   pairs, pairLog, options, elapsed, transport>>

\* The caller changes the header object it holds: held.a = '9' on an
\* object, held.length = 0 and held.push('9') on a list.
MutateHeld ==
    /\ access.held # Absent
    /\ access' =
         [access EXCEPT
            !.held = IF @.t = "arr"
                     THEN Arr(<<Str(<<"9">>)>>)
                     ELSE Obj(ObjectSet(@.m, <<"a">>, Str(<<"9">>)))]
    /\ access'.held # access.held
    /\ UNCHANGED <<evVars, epVars, resVars, utilVars, tmVars, callVars, ipCall,
                   pairs, pairLog, options, elapsed, transport>>

NextHeaders == Get \/ MutateHeld

SpecHeaders == InitHeaders /\ [][NextHeaders]_vars

-----------------------------------------------------------------------------
(* C31 *)

IsLowerKey(key) == \A i \in 1..Len(key) : key[i] \notin {"A", "B"}

\* The keys are the same up to the case of their letters.
SameLetters(a, b) ==
    /\ Len(a) = Len(b)
    /\ \A i \in 1..Len(a) :
          a[i] = b[i] \/ {a[i], b[i]} \in {{"a", "A"}, {"b", "B"}}

\* The entries whose value is not undefined
RECURSIVE DefinedEntries(_)
DefinedEntries(m) ==
    IF m = <<>> THEN <<>>
    ELSE (IF Head(m).v = Absent THEN <<>> ELSE <<Head(m)>>)
         \o DefinedEntries(Tail(m))

\* key1, value1, key2, value2, ...
AlternatingList(m) == Flatten([i \in 1..Len(m) |-> <<Str(m[i].k), m[i].v>>])

\* C31, as the code has it: for an event with a headers map, every access
\* gives the value computed from the event, whatever the caller did to the
\* object it holds; the keys of headers are lowercase, one for each group of
\* event keys that differ in case only, with the value of the last of the
\* group; headersDistinct has the same keys, each with the one-element list
\* of the headers value; rawHeaders is the alternating key/value list of the
\* event's own entries, keys spelled as the event spells them.
C31_HeaderViews ==
    (event.headers.t = "obj" /\ access.op \in HeaderViews) =>
        LET H == LambdaIncomingMessage_headerView(event, "headers").m
            D == LambdaIncomingMessage_headerView(event, "headersDistinct").m
            R == LambdaIncomingMessage_headerView(event, "rawHeaders").a
            E == DefinedEntries(event.headers.m)
        IN /\ access.value = LambdaIncomingMessage_headerView(event, access.op)
           /\ \A i \in 1..Len(H) : IsLowerKey(H[i].k)
           /\ \A i, j \in 1..Len(H) : H[i].k = H[j].k => i = j
           /\ \A i \in 1..Len(E) : \E j \in 1..Len(H) :
                 SameLetters(H[j].k, E[i].k)
           /\ \A j \in 1..Len(H) : \E i \in 1..Len(E) :
                 /\ SameLetters(H[j].k, E[i].k)
                 /\ H[j].v = E[i].v
                 /\ \A l \in (i + 1)..Len(E) : ~SameLetters(H[j].k, E[l].k)
           /\ Len(D) = Len(H)
           /\ \A i \in 1..Len(H) :
                 D[i].k = H[i].k /\ D[i].v = Arr(<<H[i].v>>)
           /\ R = AlternatingList(E)

\* The headers map spells one header in both cases; headers was read again
\* after the caller changed the object it had been given.
C31_Witness ==
    /\ event.headers.t = "obj"
    /\ Len(DefinedEntries(event.headers.m)) = 2
    /\ SameLetters(event.headers.m[1].k, event.headers.m[2].k)
    /\ access.op = "headers"
    /\ access.held # Absent
    /\ access.held # access.value
    /\ access.held.t = "obj"

\* C31: rawHeaders is the alternating key/value list of headers, and its
\* keys are lowercase like those of headers and headersDistinct.
C31_ViewsOfLowercasedMap ==
    (event.headers.t = "obj" /\ access.op = "rawHeaders") =>
        /\ access.value.a
              = AlternatingList(
                   LambdaIncomingMessage_headerView(event, "headers").m)
        /\ \A i \in 1..Len(access.value.a) :
              i % 2 = 1 => IsLowerKey(access.value.a[i].s)

-----------------------------------------------------------------------------
(* C37 *)

\* C37: for an event that validateApiGatewayEvent accepts, reading headers,
\* headersDistinct, rawHeaders, method, url and httpVersion does not throw,
\* and without a headers map (missing or null) the header views are empty.
C37_GettersNeverThrow ==
    (validated = "accepted" /\ access.op # "none") =>
        /\ access.value # Thrown
        /\ (event.headers.t # "obj" /\ access.op \in HeaderViews) =>
              access.value \in {Obj(<<>>), Arr(<<>>)}

-----------------------------------------------------------------------------
(* SpecSerialize: on the response of a pair the middleware stores a status *)
(* code (a number, a numeric string, undefined), sets set-cookie to a list *)
(* of cookies, writes to the socket and assigns url; then one of the two   *)
(* serializers is called.                                                  *)

StoredStatus ==
    {Num(201), Num(0), Str(<<"4", "0", "4">>), Str(<<"0">>), Undefined}

CookieAttr ==
    <<"a", "=", "1", ";", " ", "P", "a", "t", "h", "=", "/", ";", " ",
      "H", "t", "t", "p", "O", "n", "l", "y">>

CookieLists ==
    {Arr(<<CookieA>>), Arr(<<CookieA, CookieB>>), Arr(<<CookieAttr>>),
     Arr(<<CookieB, CookieAttr>>)}

AssignedUrls == {Str(<<"/", "z">>), Absent}

\* createRequestResponsePair(event)
InitSerialize ==
    /\ event \in {EventA, EventB}
    /\ validated = validateApiGatewayEvent(event)
    /\ pair = "created"
    /\ reqUrl = _parseUrl(event)
    /\ ep = EventWrapperSocket(constructorBody(event))
    /\ pushed = <<>>
    /\ eofCount = 0
    /\ readCalls = 0
    /\ epLog = <<>>
    /\ appified = "idle"
    /\ listeners = {}
    /\ promise = "none"
    /\ result = NoObject
    /\ res = LambdaResponse(event)
    /\ writer = EventResponseBodyWriter
    /\ writerLog = <<>>
    /\ resLog = <<>>
    /\ ticks = <<>>
    /\ finishCount = 0
    /\ errorCount = 0
    /\ BaseIdle
    /\ ipCall = NoObject
    /\ PairsIdle
    /\ OptionsIdle
    /\ access = NoAccess
    /\ transport = NoObject

\* response.statusCode = value
AssignStatus ==
    /\ result = NoObject
    /\ \E sc \in StoredStatus :
         /\ res.statusCode # sc
         /\ res' = [res EXCEPT !.statusCode = sc]
    /\ UNCHANGED <<auxVars, evVars, epVars, appified, listeners, promise, result,
                   writer, writerLog, resLog, ticks, finishCount, errorCount>>

\* response.setHeader('set-cookie', [c1, ..., ck])
SetCookies ==
    /\ result = NoObject
    /\ \E c \in CookieLists :
         /\ res.headers["set-cookie"] # c
         /\ res' = [res EXCEPT !.headers["set-cookie"] = c]
    /\ UNCHANGED <<auxVars, evVars, epVars, appified, listeners, promise, result,
                   writer, writerLog, resLog, ticks, finishCount, errorCount>>

\* write(chunk) on the response's socket
SocketWrite ==
    /\ result = NoObject
    /\ AccumulateWrite

\* response.url = url
ResponseSetUrl ==
    /\ \E url \in AssignedUrls :
         /\ access.value # url \/ access.op # "response.url"
         /\ \E s \in {LambdaResponse_setUrl(res, reqUrl, url)} :
              /\ res' = s.res
              /\ reqUrl' = s.reqUrl
         /\ access' = [op |-> "response.url", value |-> url, held |-> Absent]
    /\ UNCHANGED <<event, validated, pair, epVars, appified, listeners, promise,
                   result, writer, writerLog, resLog, ticks, finishCount,
                   errorCount, utilVars, tmVars, callVars, ipCall, pairs,
                   pairLog, options, elapsed, transport>>

\* response.lambdaResponse() or response.lambdaResponseV2()
Serialize ==
    /\ result = NoObject
    /\ \E format \in {"A", "B"} :
         result' = [format |-> format,
                    value |-> IF format = "A" THEN lambdaResponse(res, writer)
                              ELSE lambdaResponseV2(res, writer)]
    /\ UNCHANGED <<auxVars, evVars, epVars, appified, listeners, promise, res,
                   writer, writerLog, resLog, ticks, finishCount, errorCount>>

NextSerialize ==
    \/ AssignStatus
    \/ SetCookies
    \/ SocketWrite
    \/ ResponseSetUrl
    \/ Serialize

SpecSerialize == InitSerialize /\ [][NextSerialize]_vars

-----------------------------------------------------------------------------
(* C32 *)

\* The stored status as a number: itself, or the digits of a numeric string
StoredNumber(sc) == IF sc.t = "str" THEN Num(ParseInt(sc.s, 0)) ELSE sc

\* C32: the format-A result's statusCode is a number, the stored status
\* (parsed when it is a numeric string) unless that is undefined or 0, and
\* 200 then; the format-B result's statusCode is the stored status, parsed
\* when it is a numeric string, and undefined or 0 when that is stored.
C32_StatusCode ==
    result # NoObject =>
        IF result.format = "A"
        THEN /\ result.value.statusCode.t = "num"
             /\ result.value.statusCode
                  = IF res.statusCode = Undefined
                       \/ StoredNumber(res.statusCode) = Num(0)
                    THEN Num(200) ELSE StoredNumber(res.statusCode)
        ELSE result.value.statusCode = StoredNumber(res.statusCode)

\* Both serializers were called on a response whose status is the string
\* '404' or is undefined.
C32_Witness ==
    /\ result # NoObject
    /\ res.statusCode \in {Str(<<"4", "0", "4">>), Undefined}
    /\ result.value.statusCode \in {Num(404), Num(200), Undefined}

-----------------------------------------------------------------------------
(* C35 *)

\* C35: when set-cookie was set to a list of cookies, the format-B result's
\* cookies field is that list.
C35_CookiesAreTheList ==
    (/\ result # NoObject
     /\ result.format = "B"
     /\ res.headers["set-cookie"].t = "arr") =>
        /\ "cookies" \in DOMAIN result.value
        /\ result.value.cookies = res.headers["set-cookie"].a

-----------------------------------------------------------------------------
(* C34 *)

\* C34: a step that assigns url on the response leaves the response (status code and
\* headers included), the socket's accumulator and the request's url as they
\* were, and with them both results the response would produce.
C34_ResponseUrlAbsorbed ==
    [][(access' # access /\ access'.op = "response.url") =>
          /\ res' = res
          /\ writer' = writer
          /\ reqUrl' = reqUrl
          /\ lambdaResponse(res', writer') = lambdaResponse(res, writer)
          /\ lambdaResponseV2(res', writer') = lambdaResponseV2(res, writer)
          /\ result' # result =>
               result'.value \in {lambdaResponse(res, writer),
                                  lambdaResponseV2(res, writer)}]_vars

\* url was assigned on a response with a status, cookies and written bytes,
\* and a result was produced afterwards.
C34_Witness ==
    /\ access.op = "response.url"
    /\ access.value = Str(<<"/", "z">>)
    /\ res.statusCode = Num(201)
    /\ res.headers["set-cookie"] # Absent
    /\ writer.acc # <<>>
    /\ result # NoObject


-----------------------------------------------------------------------------
(* SpecUrl: a request is made from an event; its url is assigned and read, *)
(* its other properties are read, its body is read, it is given a timeout, *)
(* the timer fires and it is destroyed, in any order.                      *)

UrlEvents ==
    {WithHeaders(EndpointEvent, Absent),
     WithHeaders([EventB EXCEPT !.rawQueryString = QueryC3,
                                !.body = Str(<<97>>)],
                 Obj(<<[k |-> <<"A">>, v |-> Str(<<"1">>)]>>))}

RequestUrls == {Str(<<"/", "z">>), Str(<<"/">>)}

\* set url(url), as if it left _url alone
LambdaIncomingMessage_setUrl_ignored(e, current, url) == current

\* set url(url) { this._url = url }: the request's _url afterwards
LambdaIncomingMessage_setUrl(e, current, url) == url

\* new LambdaIncomingMessage(event)
InitUrl ==
    /\ event \in UrlEvents
    /\ validated = validateApiGatewayEvent(event)
    /\ pair = "none"
    /\ reqUrl = _parseUrl(event)
    /\ ep = EventWrapperSocket(constructorBody(event))
    /\ pushed = <<>>
    /\ eofCount = 0
    /\ readCalls = 0
    /\ epLog = <<>>
    /\ ResponseIdle
    /\ BaseIdle
    /\ ipCall = NoObject
    /\ PairsIdle
    /\ OptionsIdle
    /\ access = NoAccess
    /\ transport = NoObject

\* request.url = url
AssignUrl ==
    /\ \E url \in RequestUrls :
         /\ reqUrl' = LambdaIncomingMessage_setUrl(event, reqUrl, url)
         /\ access' = [op |-> "url=", value |-> url, held |-> access.held]
    /\ UNCHANGED <<event, validated, pair, epVars, resVars, utilVars, tmVars,
                   callVars, ipCall, pairs, pairLog, options, elapsed,
                   transport>>

NextUrl ==
    \/ AssignUrl
    \/ Get
    \/ EpRead
    \/ FirstSetTimeout
    \/ Fire
    \/ Destroy

SpecUrl == InitUrl /\ [][NextUrl]_vars

-----------------------------------------------------------------------------
(* C33 *)

\* C33: the request's url is what _parseUrl made of the event at
\* construction; an assignment url := u makes it u, a read of url gives the
\* current value, and no other step (reading a property or the body, a
\* timeout being set or firing, destroy) changes it; no step changes the
\* event.
C33_UrlSetOnlyByAssignment ==
    /\ reqUrl = _parseUrl(event)
    /\ [][/\ event' = event
          /\ IF access' # access /\ access'.op = "url="
             THEN reqUrl' = access'.value
             ELSE reqUrl' = reqUrl
          /\ (access' # access /\ access'.op = "url")
                => access'.value = reqUrl]_vars

\* the url was assigned and read back after the body was read, a timeout
\* was set and destroy was called
C33_Witness ==
    /\ access.op = "url"
    /\ access.value \in RequestUrls
    /\ access.value # _parseUrl(event)
    /\ readCalls > 0
    /\ timerLog # <<>>
    /\ destroyDepth > 0


-----------------------------------------------------------------------------
(* C36 *)

\* isApiGatewayV1(event) and isApiGatewayV2(event) of types.ts
isApiGatewayV1(e) ==
    CASE detectApiGatewayVersion(e) = "throw" -> "throw"
      [] detectApiGatewayVersion(e) = "v1" -> "true"
      [] OTHER -> "false"

isApiGatewayV2(e) ==
    CASE detectApiGatewayVersion(e) = "throw" -> "throw"
      [] detectApiGatewayVersion(e) = "v2" -> "true"
      [] OTHER -> "false"

\* C36: for an event that validateApiGatewayEvent accepted, isAPIGatewayV1
\* gives what isApiGatewayV1 gives and isAPIGatewayV2 gives what
\* isApiGatewayV2 gives, so exactly one format is recognised by both.
C36_GuardFamiliesAgree ==
    (validated = "accepted" /\ guards # NoObject) =>
        /\ guards.v1 = isApiGatewayV1(event)
        /\ guards.v2 = isApiGatewayV2(event)
        /\ guards.v1 # guards.v2


-----------------------------------------------------------------------------
(* SpecBody: a request is built on an event whose body is plain text or    *)
(* base64 text, flagged or not, and the stream machinery calls _read until *)
(* end-of-stream was pushed.                                               *)

\* "YWI=" and "YQ==", the base64 forms of "ab" and "a"
Base64Bodies == {Str(<<89, 87, 73, 61>>), Str(<<89, 81, 61, 61>>)}

\* no body, plain text, base64 text
EncodedBodies == {Null, Str(<<97, 98>>), Str(<<97>>)} \cup Base64Bodies

Bool(b) == [t |-> "bool", b |-> b]

WithBase64(e, text, flag) ==
    [kind |-> e.kind, version |-> e.version, httpMethod |-> e.httpMethod,
     path |-> e.path, routeKey |-> e.routeKey, rawPath |-> e.rawPath,
     requestContext |-> e.requestContext,
     queryStringParameters |-> e.queryStringParameters,
     rawQueryString |-> e.rawQueryString, body |-> text,
     isBase64Encoded |-> flag]

BodyEvents ==
    {WithBase64(e, text, Bool(TRUE)) :
        e \in {EndpointEvent, EventB}, text \in {Null} \cup Base64Bodies}
    \cup {WithBase64(e, text, flag) :
             e \in {EndpointEvent, EventB}, text \in EncodedBodies,
             flag \in {Absent, Bool(FALSE)}}

\* new LambdaIncomingMessage(event)
InitBody ==
    /\ event \in BodyEvents
    /\ validated = validateApiGatewayEvent(event)
    /\ pair = "none"
    /\ reqUrl = _parseUrl(event)
    /\ ep = EventWrapperSocket(constructorBody(event))
    /\ pushed = <<>>
    /\ eofCount = 0
    /\ readCalls = 0
    /\ epLog = <<>>
    /\ ResponseIdle
    /\ AuxIdle

NextBody == EpRead

SpecBody == InitBody /\ [][NextBody]_vars

-----------------------------------------------------------------------------
(* C38 *)

\* C38: once end-of-stream was signalled, the bytes pushed on the read side
\* are the body's bytes: event.body decoded from base64 when
\* event.isBase64Encoded is true, event.body as given otherwise.
C38_ReplaysDecodedBody ==
    eofCount > 0 =>
        PushedText = IF event.isBase64Encoded = Bool(TRUE) /\ Truthy(event.body)
                     THEN Base64Decode(event.body.s)
                     ELSE EventBodyText


-----------------------------------------------------------------------------
(* ResponseTransport.  A transport is a record of _body, _statusCode,      *)
(* _headers, _headersSent, _destroyed and _timeout (the index in timers of *)
(* the timer it holds, 0 for none), together with the timers it created,   *)
(* the signals it emitted on its event emitter, the chunks its write       *)
(* accepted and what its last write returned.                              *)

\* new ResponseTransport(eventEmitter)
ResponseTransport ==
    [body |-> Null, statusCode |-> 200, headers |-> <<>>,
     headersSent |-> FALSE, destroyed |-> FALSE, timeout |-> 0,
     timers |-> <<>>, emitted |-> <<>>, written |-> <<>>,
     lastWrite |-> NoObject]

\* String(value) of a string, a Buffer, or an array of them: an array is
\* joined with ","
JsString(v) ==
    CASE v.t = "str" -> v.s
      [] v.t = "bytes" -> BufferToString(v.b)
      [] v.t = "arr" ->
           Join([i \in 1..Len(v.a) |->
                   IF v.a[i].t = "str" THEN v.a[i].s
                   ELSE BufferToString(v.a[i].b)], <<44>>)
      [] OTHER -> <<>>

\* this._eventEmitter.emit(signal); stale tells that the signal comes from a
\* timer that was installed before destroy
Emit(t, signal, stale) ==
    [t EXCEPT !.emitted = Append(@, [signal |-> signal,
                                     afterDestroy |-> t.destroyed,
                                     stale |-> stale])]

\* write(chunk, encoding, callback): the "Append to body" part
ResponseTransport_append(bodyNow, chunk) ==
    IF bodyNow = Null THEN chunk
    ELSE IF bodyNow.t = "str" /\ chunk.t = "str"
    THEN Str(bodyNow.s \o chunk.s)
    ELSE IF bodyNow.t = "arr" THEN Arr(Append(bodyNow.a, chunk))
    ELSE Arr(<<bodyNow, chunk>>)

\* write(chunk, encoding, callback); callback tells whether one was given
ResponseTransport_write(t, chunk, callback) ==
    IF t.destroyed
    THEN [t EXCEPT !.lastWrite =
            [returns |-> FALSE, afterDestroy |-> TRUE, bodyBefore |-> t.body,
             callbackError |-> callback]]
    ELSE [t EXCEPT !.body = ResponseTransport_append(t.body, chunk),
                   !.written = Append(@, chunk),
                   !.lastWrite =
                      [returns |-> TRUE, afterDestroy |-> FALSE,
                       bodyBefore |-> t.body, callbackError |-> FALSE]]

\* end(chunk, encoding, callback)
ResponseTransport_end(t, chunk) ==
    LET w == IF chunk # Undefined THEN ResponseTransport_write(t, chunk, FALSE)
             ELSE t
        h == [w EXCEPT !.headersSent = TRUE]
    IN Emit(Emit(h, "finish", FALSE), "close", FALSE)

\* clearTimeout(this._timeout)
ClearTimeout(t) ==
    IF t.timeout # 0 /\ t.timers[t.timeout].state = "armed"
    THEN [t EXCEPT !.timers[t.timeout].state = "cleared"]
    ELSE t

\* setTimeout(msecs, callback)
ResponseTransport_setTimeout(t, msecs, callback) ==
    LET c == ClearTimeout(t) IN
    [c EXCEPT !.timers = Append(@, [state |-> "armed", cb |-> callback,
                                    sinceDestroy |-> t.destroyed]),
              !.timeout = Len(c.timers) + 1]

\* the timer's function: () => { if (callback) callback(); emit('timeout') }
ResponseTransport_timerFires(t, i) ==
    LET f == [t EXCEPT !.timers[i].state = "fired"]
        c == IF t.timers[i].cb THEN Emit(f, "callback", FALSE) ELSE f
    IN Emit(c, "timeout", t.destroyed /\ ~t.timers[i].sinceDestroy)

\* destroy(error)
ResponseTransport_destroy(t, error) ==
    IF t.destroyed THEN t
    ELSE LET d == ClearTimeout([t EXCEPT !.destroyed = TRUE])
             e == IF error THEN Emit(d, "error", FALSE) ELSE d
         IN Emit(e, "close", FALSE)

\* toAPIGatewayResult()
toAPIGatewayResult(t) ==
    [statusCode |-> t.statusCode, headers |-> t.headers,
     body |-> IF t.body = Null \/ t.body = Str(<<>>) THEN <<>>
              ELSE JsString(t.body),
     isBase64Encoded |-> FALSE]

-----------------------------------------------------------------------------
(* SpecTransport: one ResponseTransport is written, ended, given timeouts  *)
(* and destroyed, its timers fire and its result is taken, in any order.   *)

MaxTransportCalls == 3   \* write, end, setTimeout and destroy calls

\* 'a', 'bc', '' and the buffers of "b" and "cd"
TransportChunks ==
    {Str(<<97>>), Str(<<98, 99>>), Str(<<>>), Bytes(<<98>>),
     Bytes(<<99, 100>>)}

TransportCalls == Len(transport.written) + Len(transport.timers) + calls

InitTransport ==
    /\ event = EventA
    /\ EventsIdle
    /\ EndpointIdle
    /\ ResponseIdle
    /\ BaseIdle
    /\ ipCall = NoObject
    /\ PairsIdle
    /\ OptionsIdle
    /\ access = NoObject
    /\ transport = ResponseTransport

\* transport.write(chunk, callback)
TransportWrite ==
    /\ transport.destroyed \/ TransportCalls < MaxTransportCalls
    /\ \E chunk \in TransportChunks, callback \in BOOLEAN :
         transport' = ResponseTransport_write(transport, chunk, callback)
    /\ UNCHANGED <<evVars, epVars, resVars, utilVars, tmVars, callVars, ipCall,
                   pairs, pairLog, options, elapsed, access>>

\* transport.end(chunk)
TransportEnd ==
    /\ TransportCalls < MaxTransportCalls
    /\ \E chunk \in TransportChunks \cup {Undefined} :
         transport' = ResponseTransport_end(transport, chunk)
    /\ calls' = calls + 1
    /\ UNCHANGED <<evVars, epVars, resVars, utilVars, tmVars, raised,
                   destroyDepth, destroyCalls, resSocket, ipCall, pairs,
                   pairLog, options, elapsed, access>>

\* transport.setTimeout(msecs, callback)
TransportSetTimeout ==
    /\ TransportCalls < MaxTransportCalls
    /\ \E msecs \in {5}, callback \in BOOLEAN :
         transport' = ResponseTransport_setTimeout(transport, msecs, callback)
    /\ UNCHANGED <<evVars, epVars, resVars, utilVars, tmVars, callVars, ipCall,
                   pairs, pairLog, options, elapsed, access>>

\* The event loop runs a timer that was not cleared.
TransportTimerFires ==
    /\ \E i \in 1..Len(transport.timers) :
         /\ transport.timers[i].state = "armed"
         /\ transport' = ResponseTransport_timerFires(transport, i)
    /\ UNCHANGED <<evVars, epVars, resVars, utilVars, tmVars, callVars, ipCall,
                   pairs, pairLog, options, elapsed, access>>

\* transport.destroy(error)
TransportDestroy ==
    /\ TransportCalls < MaxTransportCalls
    /\ \E error \in BOOLEAN :
         transport' = ResponseTransport_destroy(transport, error)
    /\ calls' = calls + 1
    /\ UNCHANGED <<evVars, epVars, resVars, utilVars, tmVars, raised,
                   destroyDepth, destroyCalls, resSocket, ipCall, pairs,
                   pairLog, options, elapsed, access>>

\* transport.toAPIGatewayResult()
TransportResult ==
    /\ result' = toAPIGatewayResult(transport)
    /\ UNCHANGED <<evVars, epVars, appified, listeners, promise, res, writer,
                   writerLog, resLog, ticks, finishCount, errorCount, auxVars>>

NextTransport ==
    \/ TransportWrite
    \/ TransportEnd
    \/ TransportSetTimeout
    \/ TransportTimerFires
    \/ TransportDestroy
    \/ TransportResult

SpecTransport == InitTransport /\ [][NextTransport]_vars

-----------------------------------------------------------------------------
(* C39 *)

\* the text of one written chunk
TransportChunkText(c) == IF c.t = "str" THEN c.s ELSE BufferToString(c.b)

\* C39: the body of a result taken from a transport that was not destroyed
\* is the text of the chunks written so far, in call order, with nothing
\* between them; with no writes it is the empty string.
C39_BodyIsConcatenation ==
    [][(result' # result /\ ~transport.destroyed) =>
          result'.body =
             Flatten([i \in 1..Len(transport.written) |->
                        TransportChunkText(transport.written[i])])]_vars

-----------------------------------------------------------------------------
(* C40 *)

SignalCount(signal) ==
    Cardinality({i \in 1..Len(transport.emitted) :
                    transport.emitted[i].signal = signal})

\* C40: 'finish' and 'close' are each emitted at most once; no 'finish' is
\* emitted after destroy; a write after destroy returns false and leaves the
\* body as it was; no 'timeout' is emitted after destroy by a timer that was
\* installed before it.
C40_SignalsOnceQuietAfterDestroy ==
    /\ SignalCount("finish") <= 1
    /\ SignalCount("close") <= 1
    /\ \A i \in 1..Len(transport.emitted) :
          /\ transport.emitted[i].signal = "finish"
                => ~transport.emitted[i].afterDestroy
          /\ transport.emitted[i].signal = "timeout"
                => ~transport.emitted[i].stale
    /\ (transport.lastWrite # NoObject /\ transport.lastWrite.afterDestroy)
          => /\ ~transport.lastWrite.returns
             /\ transport.lastWrite.bodyBefore = transport.body

====
